---- MODULE Spec2Model ----
(***************************************************************************)
(* ESP-NOW multi-poi synchronisation (esp32_firmware/src/espnow_sync.h):   *)
(* the peer registry, the pairing handshake, the liveness sweep, time sync *)
(* and the command fan-out of class ESPNowSync, as a state machine of one  *)
(* device.  Datagrams are byte sequences laid out as the packed structs of *)
(* the source; the transport is the log of what the last operation sent.   *)
(***************************************************************************)
EXTENDS Integers, Sequences, FiniteSets, TLC

\* ------------------------------------------------------------ constants
SYNC_MAGIC_0 == 78
SYNC_MAGIC_1 == 80

MSG_PAIR_REQUEST == 1
MSG_PAIR_RESPONSE == 2
MSG_UNPAIR == 3
MSG_SET_MODE == 16
MSG_SET_PATTERN == 17
MSG_SET_BRIGHTNESS == 18
MSG_SET_FRAMERATE == 19
MSG_HEARTBEAT == 32
MSG_SYNC_TIME == 48

SYNC_MIRROR == 0
SYNC_INDEPENDENT == 1

PEER_NONE == 0
PEER_DISCOVERING == 1
PEER_PAIR_SENT == 2
PEER_PAIRED == 3

MAX_SYNC_PEERS == 6

\* sizeof of the packed payload structs and of the char arrays
SizeofPairPayload == 31
SizeofHeartbeatPayload == 33
SizeofModePayload == 2
SizeofPatternPayload == 9
SizeofBrightnessPayload == 1
SizeofFrameRatePayload == 1
SizeofSyncTimePayload == 4
PayloadNameSize == 24
PeerNameSize == 32
HeaderLen == 4
SendBufSize == 250
MemcpyCap == 246

\* the intervals and timeouts of loop() and checkPeerTimeouts()
HeartbeatInterval == 2000
TimeSyncInterval == 5000
OfflineTimeout == 10000
StaleTimeout == 30000

\* ------------------------------------------------------------ bounds
\* remote endpoints of the pairing and command specifications
NumRemotes == 2
\* remote endpoints of the liveness specification
NumRemotesLive == 1
\* remote endpoints of the capacity specification (one more than the table holds)
NumRemotesFull == 7
\* where the clock stops in the pairing, liveness and command specifications
MaxTimePair == 10000
MaxTimeLive == 31000
MaxTimeCmd == 10000
\* millis() when the first operation runs in the capacity specification
BootTime == 3000
\* millis() at the first message of the message specification, and how far the
\* clock runs from there
ClockMsg == 44000
MaxTimeMsg == 5000
\* datagrams one run may send (the 8-bit _seq counter is capped, not wrapped)
MaxSeq == 6
MaxSeqFull == 2
MaxSeqMsg == 2

\* the value at which the millisecond clock of the model wraps to 0 (2^17; the
\* unsigned long of the code wraps at 2^32), and how long a run across the wrap lasts
ClockWrap == 131072

MaxTimeWrap == 15000

\* how long a run lasts in which every peer goes offline and is heard again
MaxTimeIdle == 10000

\* datagrams one run of the host operations may send
MaxSeqHost == 4

\* ------------------------------------------------------------ bytes
Min(a, b) == IF a < b THEN a ELSE b

Zeros(n) == [i \in 1..n |-> 0]

Take(s, n) == SubSeq(s, 1, Min(n, Len(s)))

Drop(s, n) == SubSeq(s, n + 1, Len(s))

\* the characters of the C string that starts at bytes[1]: up to the first NUL
CStr(bytes) ==
  IF \E i \in 1..Len(bytes) : bytes[i] = 0
  THEN SubSeq(bytes, 1, (CHOOSE i \in 1..Len(bytes) :
                           bytes[i] = 0 /\ \A j \in 1..(i - 1) : bytes[j] # 0) - 1)
  ELSE bytes

\* strncpy(dst, src, n): at most n characters of the C string src, NUL-padded to n
StrNCpy(src, n) == Take(CStr(src), n) \o Zeros(n - Len(Take(CStr(src), n)))

\* strncpy(field, src, size - 1); field[size - 1] = '\0'
NameField(src, size) == StrNCpy(src, size - 1) \o <<0>>

\* a uint32_t in a packed struct (little-endian)
U32LE(v) == <<v % 256, (v \div 256) % 256, (v \div 65536) % 256, (v \div 16777216) % 256>>

\* a 6-byte hardware address; every byte is the endpoint's number
MacOf(i) == <<i, i, i, i, i, i>>

BroadcastAddr == MacOf(255)

\* the local endpoint and name, set once by begin()
LocalMac == MacOf(170)

LocalName == <<80, 111, 105, 65>>

\* ------------------------------------------------------------ payloads
PairPayload(mac, name, accepted) ==
  mac \o NameField(name, PayloadNameSize) \o <<accepted>>

HeartbeatPayload(mode, index, brightness, frameDelay, uptimeMs, sMode, name) ==
  <<mode, index, brightness, frameDelay>> \o U32LE(uptimeMs) \o <<sMode>>
    \o NameField(name, PayloadNameSize)

ModePayload(mode, index) == <<mode, index>>

PatternPayload(idx, type, r1, g1, b1, r2, g2, b2, speed) ==
  <<idx, type, r1, g1, b1, r2, g2, b2, speed>>

BrightnessPayload(brightness) == <<brightness>>

FrameRatePayload(frameDelay) == <<frameDelay>>

SyncTimePayload(masterMillis) == U32LE(masterMillis)

\* ------------------------------------------------------------ state
VARIABLES
  peers,            \* _peers[MAX_SYNC_PEERS]
  peerCount,        \* _peerCount
  syncMode,         \* _syncMode
  seq,              \* _seq
  lastHeartbeat,    \* _lastHeartbeat
  lastTimeSync,     \* _lastTimeSync
  timeOffset,       \* _timeOffset
  autoPairEnabled,  \* _autoPairEnabled
  localState,       \* _localMode, _localIndex, _localBrightness, _localFrameDelay
  now,              \* millis()
  espPeers,         \* the addresses registered with ESP-NOW
  sent,             \* the datagrams the last operation handed to esp_now_send
  calls,            \* the callbacks the last operation invoked
  op,               \* the last operation and its input
  tally,            \* per endpoint: PairRequests counted, PairResponses sent back
  other,            \* a second device running the same code: its object
  net,              \* the datagrams in flight between the two devices
  main              \* the main loop inside unpairPeer: its position, index and i

vars == <<peers, peerCount, syncMode, seq, lastHeartbeat, lastTimeSync, timeOffset,
          autoPairEnabled, localState, now, espPeers, sent, calls, op, tally,
          other, net, main>>

\* a zeroed SyncPeer (memset 0)
ZeroPeer ==
  [mac |-> Zeros(6), name |-> <<>>, state |-> PEER_NONE, lastSeen |-> 0,
   currentMode |-> 0, currentIndex |-> 0, brightness |-> 0, online |-> FALSE]

Slots == 0..(MAX_SYNC_PEERS - 1)

\* the fields of the object the handlers read and write, as one record; stale is
\* what the stack holds behind the bytes sendMessage has written
Cur ==
  [peers |-> peers, peerCount |-> peerCount, syncMode |-> syncMode, seq |-> seq,
   lastHeartbeat |-> lastHeartbeat, lastTimeSync |-> lastTimeSync,
   timeOffset |-> timeOffset, autoPairEnabled |-> autoPairEnabled,
   localState |-> localState, now |-> now, espPeers |-> espPeers,
   sent |-> <<>>, calls |-> <<>>, stale |-> <<>>]

Apply(s) ==
  /\ peers' = s.peers
  /\ peerCount' = s.peerCount
  /\ syncMode' = s.syncMode
  /\ seq' = s.seq
  /\ lastHeartbeat' = s.lastHeartbeat
  /\ lastTimeSync' = s.lastTimeSync
  /\ timeOffset' = s.timeOffset
  /\ autoPairEnabled' = s.autoPairEnabled
  /\ localState' = s.localState
  /\ now' = s.now
  /\ espPeers' = s.espPeers
  /\ sent' = s.sent
  /\ calls' = s.calls

\* the object at clock t with the given table; everything else as the constructor
\* and begin() leave it
InitWith(t, table, count, registered) ==
  /\ peers = table
  /\ peerCount = count
  /\ syncMode = SYNC_MIRROR
  /\ seq = 0
  /\ lastHeartbeat = 0
  /\ lastTimeSync = 0
  /\ timeOffset = 0
  /\ autoPairEnabled = TRUE
  /\ localState = [mode |-> 0, index |-> 0, brightness |-> 128, frameDelay |-> 20]
  /\ now = t
  /\ espPeers = registered
  /\ sent = <<>>
  /\ calls = <<>>
  /\ op = [kind |-> "begin", mac |-> <<>>, data |-> <<>>, arg |-> <<>>]
  /\ tally = [m \in {MacOf(i) : i \in 1..NumRemotes} |-> [req |-> 0, resp |-> 0]]
  /\ other = [Cur EXCEPT !.peers = [i \in Slots |-> ZeroPeer], !.peerCount = 0,
                         !.espPeers = {BroadcastAddr}]
  /\ net = {}
  /\ main = [pc |-> "idle", index |-> 0, i |-> 0]

\* the constructor followed by begin(): empty table, MIRROR, auto-pair on,
\* the broadcast address registered with the transport
InitAt(t) == InitWith(t, [i \in Slots |-> ZeroPeer], 0, {BroadcastAddr})

Init == InitAt(0)

\* ------------------------------------------------------------ sending
\* uint8_t totalLen = 4 + payloadLen
totalLen(payloadLen) == (HeaderLen + payloadLen) % 256

\* a faulty variant of sendMessage that increments _seq before it writes the header
sendMessage_SeqAfterIncrement(s, mac, msgType, payload) ==
  LET payloadLen == Len(payload) % 256
      buf == <<SYNC_MAGIC_0, SYNC_MAGIC_1, msgType, (s.seq + 1) % 256>>
               \o Take(payload, Min(payloadLen, MemcpyCap))
  IN [s EXCEPT !.sent = Append(@, [mac |-> mac,
                                   data |-> Take(buf \o s.stale, totalLen(payloadLen))]),
               !.seq = (s.seq + 1) % 256]

\* sendMessage: header, at most 246 payload bytes, 8-bit total length, _seq++;
\* esp_now_send is handed totalLen bytes from the start of buf, whatever was written
sendMessage(s, mac, msgType, payload) ==
  LET payloadLen == Len(payload) % 256
      buf == <<SYNC_MAGIC_0, SYNC_MAGIC_1, msgType, s.seq>>
               \o Take(payload, Min(payloadLen, MemcpyCap))
  IN [s EXCEPT !.sent = Append(@, [mac |-> mac,
                                   data |-> Take(buf \o s.stale, totalLen(payloadLen))]),
               !.seq = (s.seq + 1) % 256]

\* a faulty variant of Elapsed: the difference is not reduced modulo the word size
Elapsed_NoWrap(t1, t0) == t1 - t0

\* t1 - t0 on unsigned long: the difference modulo the word size (ClockWrap stands
\* for 2^32)
Elapsed(t1, t0) == (t1 - t0) % ClockWrap

\* ------------------------------------------------------------ registry
\* findPeer: the first slot below _peerCount holding mac, or -1
findPeer(s, mac) ==
  IF \E i \in 0..(s.peerCount - 1) : s.peers[i].mac = mac
  THEN CHOOSE i \in 0..(s.peerCount - 1) :
         s.peers[i].mac = mac /\ \A j \in 0..(i - 1) : s.peers[j].mac # mac
  ELSE -1


\* a faulty variant of addPeerSlot: no lookup, every call takes a fresh slot
addPeerSlot_NoFind(s, mac) ==
  IF s.peerCount >= MAX_SYNC_PEERS THEN [s |-> s, idx |-> -1]
  ELSE [s |-> [s EXCEPT !.peerCount = @ + 1, !.peers[s.peerCount].mac = mac],
        idx |-> s.peerCount]

\* addPeerSlot: the slot of mac, a fresh slot holding only mac, or -1 when full
addPeerSlot(s, mac) ==
  IF findPeer(s, mac) >= 0 THEN [s |-> s, idx |-> findPeer(s, mac)]
  ELSE IF s.peerCount >= MAX_SYNC_PEERS THEN [s |-> s, idx |-> -1]
  ELSE [s |-> [s EXCEPT !.peerCount = @ + 1, !.peers[s.peerCount].mac = mac],
        idx |-> s.peerCount]

\* registerESPNowPeer: esp_now_add_peer unless esp_now_is_peer_exist
registerESPNowPeer(s, mac) ==
  IF mac \in s.espPeers THEN s ELSE [s EXCEPT !.espPeers = @ \cup {mac}]

\* esp_now_del_peer
delESPNowPeer(s, mac) == [s EXCEPT !.espPeers = @ \ {mac}]

\* a faulty variant of removePeerAt: the entries are shifted, the count and the last slot stay
removePeerAt_KeepCount(s, idx) ==
  [s EXCEPT !.peers = [i \in Slots |->
                         IF i < idx THEN s.peers[i]
                         ELSE IF i < s.peerCount - 1 THEN s.peers[i + 1]
                         ELSE s.peers[i]]]

\* the shift loop that closes the gap at idx, _peerCount--, memset of the freed slot
removePeerAt(s, idx) ==
  [s EXCEPT !.peers = [i \in Slots |->
                         IF i < idx THEN s.peers[i]
                         ELSE IF i < s.peerCount - 1 THEN s.peers[i + 1]
                         ELSE IF i = s.peerCount - 1 THEN ZeroPeer
                         ELSE s.peers[i]],
            !.peerCount = @ - 1]

\* hasPairedPeer: some slot below _peerCount is PAIRED and online
hasPairedPeer(s) ==
  \E i \in 0..(s.peerCount - 1) : s.peers[i].state = PEER_PAIRED /\ s.peers[i].online

\* a callback invocation, with the arguments it is handed
Call(s, cb, args) == [s EXCEPT !.calls = Append(@, [cb |-> cb, args |-> args])]

\* ------------------------------------------------------------ handlers
\* a faulty variant of pairedFrom that leaves the record waiting for a response
pairedFrom_PairSent(s, idx, payload) ==
  [s EXCEPT !.peers[idx].name = Take(CStr(Drop(payload, 6)), PeerNameSize - 1),
            !.peers[idx].state = PEER_PAIR_SENT,
            !.peers[idx].lastSeen = s.now,
            !.peers[idx].online = TRUE]

\* the record fields handlePairRequest and handlePairResponse write
pairedFrom(s, idx, payload) ==
  [s EXCEPT !.peers[idx].name = Take(CStr(Drop(payload, 6)), PeerNameSize - 1),
            !.peers[idx].state = PEER_PAIRED,
            !.peers[idx].lastSeen = s.now,
            !.peers[idx].online = TRUE]

\* a faulty variant of handlePairRequest: an endpoint that is already PAIRED gets no answer
handlePairRequest_AnswerOnce(s, mac, payload) ==
  IF Len(payload) < SizeofPairPayload THEN s
  ELSE IF ~s.autoPairEnabled THEN s
  ELSE LET r == addPeerSlot(registerESPNowPeer(s, mac), mac)
           idx == r.idx
       IN IF idx < 0 THEN r.s
          ELSE LET known == r.s.peers[idx].state = PEER_PAIRED
                   s1 == pairedFrom(r.s, idx, payload)
                   s2 == IF known THEN s1
                         ELSE sendMessage(s1, mac, MSG_PAIR_RESPONSE,
                                          PairPayload(LocalMac, LocalName, 1))
               IN Call(s2, "onPeerUpdate", <<s2.peers[idx]>>)

\* a faulty variant of handlePairRequest: lastSeen is left as the slot had it
handlePairRequest_NoLastSeen(s, mac, payload) ==
  IF Len(payload) < SizeofPairPayload THEN s
  ELSE IF ~s.autoPairEnabled THEN s
  ELSE LET r == addPeerSlot(registerESPNowPeer(s, mac), mac)
           idx == r.idx
       IN IF idx < 0 THEN r.s
          ELSE LET s1 == [pairedFrom(r.s, idx, payload) EXCEPT
                            !.peers[idx].lastSeen = r.s.peers[idx].lastSeen]
                   s2 == sendMessage(s1, mac, MSG_PAIR_RESPONSE,
                                     PairPayload(LocalMac, LocalName, 1))
               IN Call(s2, "onPeerUpdate", <<s2.peers[idx]>>)

\* a faulty variant of handlePairRequest: the answer is sent before the slot is looked for
handlePairRequest_AnswerFirst(s, mac, payload) ==
  IF Len(payload) < SizeofPairPayload THEN s
  ELSE IF ~s.autoPairEnabled THEN s
  ELSE LET s0 == sendMessage(registerESPNowPeer(s, mac), mac, MSG_PAIR_RESPONSE,
                             PairPayload(LocalMac, LocalName, 1))
           r == addPeerSlot(s0, mac)
           idx == r.idx
       IN IF idx < 0 THEN r.s
          ELSE LET s1 == pairedFrom(r.s, idx, payload)
               IN Call(s1, "onPeerUpdate", <<s1.peers[idx]>>)

\* a faulty variant of handlePairRequest: the sender is registered with the transport
\* before the auto-pair switch is looked at
handlePairRequest_RegisterFirst(s, mac, payload) ==
  IF Len(payload) < SizeofPairPayload THEN s
  ELSE LET s0 == registerESPNowPeer(s, mac)
       IN IF ~s.autoPairEnabled THEN s0
          ELSE LET r == addPeerSlot(s0, mac)
                   idx == r.idx
               IN IF idx < 0 THEN r.s
                  ELSE LET s1 == pairedFrom(r.s, idx, payload)
                           s2 == sendMessage(s1, mac, MSG_PAIR_RESPONSE,
                                             PairPayload(LocalMac, LocalName, 1))
                       IN Call(s2, "onPeerUpdate", <<s2.peers[idx]>>)

handlePairRequest(s, mac, payload) ==
  IF Len(payload) < SizeofPairPayload THEN s
  ELSE IF ~s.autoPairEnabled THEN s
  ELSE LET r == addPeerSlot(registerESPNowPeer(s, mac), mac)
           idx == r.idx
       IN IF idx < 0 THEN r.s
          ELSE LET s1 == pairedFrom(r.s, idx, payload)
                   s2 == sendMessage(s1, mac, MSG_PAIR_RESPONSE,
                                     PairPayload(LocalMac, LocalName, 1))
               IN Call(s2, "onPeerUpdate", <<s2.peers[idx]>>)

\* a faulty variant of handlePairResponse that does not look at the accepted byte
handlePairResponse_IgnoreAccepted(s, mac, payload) ==
  IF Len(payload) < SizeofPairPayload THEN s
  ELSE LET r == addPeerSlot(registerESPNowPeer(s, mac), mac)
           idx == r.idx
       IN IF idx < 0 THEN r.s
          ELSE LET s1 == pairedFrom(r.s, idx, payload)
               IN Call(s1, "onPeerUpdate", <<s1.peers[idx]>>)

handlePairResponse(s, mac, payload) ==
  IF Len(payload) < SizeofPairPayload THEN s
  ELSE IF payload[SizeofPairPayload] = 0 THEN s
  ELSE LET r == addPeerSlot(registerESPNowPeer(s, mac), mac)
           idx == r.idx
       IN IF idx < 0 THEN r.s
          ELSE LET s1 == pairedFrom(r.s, idx, payload)
               IN Call(s1, "onPeerUpdate", <<s1.peers[idx]>>)

\* a faulty variant of handleUnpair that leaves the endpoint registered with ESP-NOW
handleUnpair_NoDeregister(s, mac) ==
  LET idx == findPeer(s, mac)
  IN IF idx < 0 THEN s ELSE removePeerAt(s, idx)

handleUnpair(s, mac) ==
  LET idx == findPeer(s, mac)
  IN IF idx < 0 THEN s ELSE removePeerAt(delESPNowPeer(s, mac), idx)

\* a faulty variant of handleSetMode that runs the callback for any sender
handleSetMode_AnySender(s, mac, payload) ==
  LET idx == findPeer(s, mac)
  IN IF Len(payload) < SizeofModePayload THEN s
     ELSE IF idx < 0 THEN Call(s, "onModeChange", <<payload[1], payload[2]>>)
     ELSE Call([s EXCEPT !.peers[idx].currentMode = payload[1],
                         !.peers[idx].currentIndex = payload[2]],
               "onModeChange", <<payload[1], payload[2]>>)

\* a faulty variant of handleSetMode: a command refreshes the record as a heartbeat does
handleSetMode_MarksOnline(s, mac, payload) ==
  LET idx == findPeer(s, mac)
  IN IF idx < 0 THEN s
     ELSE IF s.peers[idx].state # PEER_PAIRED THEN s
     ELSE IF Len(payload) < SizeofModePayload THEN s
     ELSE Call([s EXCEPT !.peers[idx].currentMode = payload[1],
                         !.peers[idx].currentIndex = payload[2],
                         !.peers[idx].online = TRUE],
               "onModeChange", <<payload[1], payload[2]>>)

handleSetMode(s, mac, payload) ==
  LET idx == findPeer(s, mac)
  IN IF idx < 0 THEN s
     ELSE IF s.peers[idx].state # PEER_PAIRED THEN s
     ELSE IF Len(payload) < SizeofModePayload THEN s
     ELSE Call([s EXCEPT !.peers[idx].currentMode = payload[1],
                         !.peers[idx].currentIndex = payload[2]],
               "onModeChange", <<payload[1], payload[2]>>)

\* a faulty variant of handleSetPattern that stores the pattern index in the record
handleSetPattern_StoreIndex(s, mac, payload) ==
  LET idx == findPeer(s, mac)
  IN IF idx < 0 THEN s
     ELSE IF s.peers[idx].state # PEER_PAIRED THEN s
     ELSE IF Len(payload) < SizeofPatternPayload THEN s
     ELSE Call([s EXCEPT !.peers[idx].currentIndex = payload[1]],
               "onPattern", Take(payload, SizeofPatternPayload))

handleSetPattern(s, mac, payload) ==
  LET idx == findPeer(s, mac)
  IN IF idx < 0 THEN s
     ELSE IF s.peers[idx].state # PEER_PAIRED THEN s
     ELSE IF Len(payload) < SizeofPatternPayload THEN s
     ELSE Call(s, "onPattern", Take(payload, SizeofPatternPayload))

\* a faulty variant of handleSetBrightness: the sender is not looked up
handleSetBrightness_AnySender(s, mac, payload) ==
  IF Len(payload) < SizeofBrightnessPayload THEN s
  ELSE Call(s, "onBrightness", <<payload[1]>>)

handleSetBrightness(s, mac, payload) ==
  LET idx == findPeer(s, mac)
  IN IF idx < 0 THEN s
     ELSE IF s.peers[idx].state # PEER_PAIRED THEN s
     ELSE IF Len(payload) < SizeofBrightnessPayload THEN s
     ELSE Call([s EXCEPT !.peers[idx].brightness = payload[1]],
               "onBrightness", <<payload[1]>>)

handleSetFrameRate(s, mac, payload) ==
  LET idx == findPeer(s, mac)
  IN IF idx < 0 THEN s
     ELSE IF s.peers[idx].state # PEER_PAIRED THEN s
     ELSE IF Len(payload) < SizeofFrameRatePayload THEN s
     ELSE Call(s, "onFrameRate", <<payload[1]>>)

\* a faulty variant of handleHeartbeat: the online flag is left as the sweep set it
handleHeartbeat_NoOnline(s, mac, payload) ==
  IF Len(payload) < SizeofHeartbeatPayload THEN s
  ELSE LET idx == findPeer(s, mac)
       IN IF idx < 0 THEN s
          ELSE [s EXCEPT
                  !.peers[idx].lastSeen = s.now,
                  !.peers[idx].currentMode = payload[1],
                  !.peers[idx].currentIndex = payload[2],
                  !.peers[idx].brightness = payload[3],
                  !.peers[idx].name = Take(CStr(Drop(payload, 9)), PeerNameSize - 1)]

\* a faulty variant of handleHeartbeat: lastSeen is left as it was
handleHeartbeat_NoLastSeen(s, mac, payload) ==
  IF Len(payload) < SizeofHeartbeatPayload THEN s
  ELSE LET idx == findPeer(s, mac)
       IN IF idx < 0 THEN s
          ELSE LET wasOffline == ~s.peers[idx].online
                   s1 == [s EXCEPT
                            !.peers[idx].online = TRUE,
                            !.peers[idx].currentMode = payload[1],
                            !.peers[idx].currentIndex = payload[2],
                            !.peers[idx].brightness = payload[3],
                            !.peers[idx].name = Take(CStr(Drop(payload, 9)), PeerNameSize - 1)]
               IN IF wasOffline THEN Call(s1, "onPeerUpdate", <<s1.peers[idx]>>) ELSE s1

\* a faulty variant of handleHeartbeat: with auto-pair on, an unknown sender is paired
handleHeartbeat_AutoPair(s, mac, payload) ==
  IF Len(payload) < SizeofHeartbeatPayload THEN s
  ELSE LET r == IF s.autoPairEnabled
                THEN addPeerSlot(registerESPNowPeer(s, mac), mac)
                ELSE [s |-> s, idx |-> findPeer(s, mac)]
           idx == r.idx
       IN IF idx < 0 THEN r.s
          ELSE LET wasOffline == ~r.s.peers[idx].online
                   s1 == [r.s EXCEPT
                            !.peers[idx].state = PEER_PAIRED,
                            !.peers[idx].lastSeen = s.now,
                            !.peers[idx].online = TRUE,
                            !.peers[idx].currentMode = payload[1],
                            !.peers[idx].currentIndex = payload[2],
                            !.peers[idx].brightness = payload[3],
                            !.peers[idx].name = Take(CStr(Drop(payload, 9)), PeerNameSize - 1)]
               IN IF wasOffline THEN Call(s1, "onPeerUpdate", <<s1.peers[idx]>>) ELSE s1

handleHeartbeat(s, mac, payload) ==
  IF Len(payload) < SizeofHeartbeatPayload THEN s
  ELSE LET idx == findPeer(s, mac)
       IN IF idx < 0 THEN s
          ELSE LET wasOffline == ~s.peers[idx].online
                   s1 == [s EXCEPT
                            !.peers[idx].lastSeen = s.now,
                            !.peers[idx].online = TRUE,
                            !.peers[idx].currentMode = payload[1],
                            !.peers[idx].currentIndex = payload[2],
                            !.peers[idx].brightness = payload[3],
                            !.peers[idx].name = Take(CStr(Drop(payload, 9)), PeerNameSize - 1)]
               IN IF wasOffline THEN Call(s1, "onPeerUpdate", <<s1.peers[idx]>>) ELSE s1

\* the value of a little-endian uint32_t
FromU32LE(b) == b[1] + 256 * b[2] + 65536 * b[3] + 16777216 * b[4]

\* a faulty variant of handleSyncTime: the sender is not looked up
handleSyncTime_AnySender(s, mac, payload) ==
  IF Len(payload) < SizeofSyncTimePayload THEN s
  ELSE LET d == Elapsed(FromU32LE(payload), s.now)
           off == IF d >= ClockWrap \div 2 THEN d - ClockWrap ELSE d
       IN Call([s EXCEPT !.timeOffset = off], "onSyncTime", <<off>>)

\* (int32_t)masterMillis - (int32_t)millis(): the difference modulo the word size,
\* read as a signed number
handleSyncTime(s, mac, payload) ==
  LET idx == findPeer(s, mac)
  IN IF idx < 0 THEN s
     ELSE IF s.peers[idx].state # PEER_PAIRED THEN s
     ELSE IF Len(payload) < SizeofSyncTimePayload THEN s
     ELSE LET d == Elapsed(FromU32LE(payload), s.now)
              off == IF d >= ClockWrap \div 2 THEN d - ClockWrap ELSE d
          IN Call([s EXCEPT !.timeOffset = off], "onSyncTime", <<off>>)

\* a faulty variant of handleMessage: only the first magic byte is compared
handleMessage_OneMagic(s, mac, data) ==
  IF Len(data) < HeaderLen THEN s
  ELSE IF data[1] # SYNC_MAGIC_0 THEN s
  ELSE IF mac = LocalMac THEN s
  ELSE IF data[3] = MSG_PAIR_REQUEST THEN handlePairRequest(s, mac, Drop(data, HeaderLen))
  ELSE IF data[3] = MSG_UNPAIR THEN handleUnpair(s, mac)
  ELSE s

\* a faulty variant of handleMessage without the comparison against the local address
handleMessage_NoLoopbackCheck(s, mac, data) ==
  IF Len(data) < HeaderLen THEN s
  ELSE IF data[1] # SYNC_MAGIC_0 \/ data[2] # SYNC_MAGIC_1 THEN s
  ELSE LET msgType == data[3]
           payload == Drop(data, HeaderLen)
       IN CASE msgType = MSG_PAIR_REQUEST -> handlePairRequest(s, mac, payload)
            [] msgType = MSG_PAIR_RESPONSE -> handlePairResponse(s, mac, payload)
            [] msgType = MSG_UNPAIR -> handleUnpair(s, mac)
            [] msgType = MSG_HEARTBEAT -> handleHeartbeat(s, mac, payload)
            [] OTHER -> s

\* a faulty variant of handleMessage that drops a datagram whose sequence byte is 0
handleMessage_SeqChecked(s, mac, data) ==
  IF Len(data) < HeaderLen THEN s
  ELSE IF data[1] # SYNC_MAGIC_0 \/ data[2] # SYNC_MAGIC_1 THEN s
  ELSE IF data[4] = 0 THEN s
  ELSE handleMessage_NoLoopbackCheck(s, mac, data)

\* handleMessage: envelope check, loop-back suppression, dispatch on the type byte
handleMessage(s, mac, data) ==
  IF Len(data) < HeaderLen THEN s
  ELSE IF data[1] # SYNC_MAGIC_0 \/ data[2] # SYNC_MAGIC_1 THEN s
  ELSE IF mac = LocalMac THEN s
  ELSE LET msgType == data[3]
           payload == Drop(data, HeaderLen)
       IN CASE msgType = MSG_PAIR_REQUEST -> handlePairRequest(s, mac, payload)
            [] msgType = MSG_PAIR_RESPONSE -> handlePairResponse(s, mac, payload)
            [] msgType = MSG_UNPAIR -> handleUnpair(s, mac)
            [] msgType = MSG_SET_MODE -> handleSetMode(s, mac, payload)
            [] msgType = MSG_SET_PATTERN -> handleSetPattern(s, mac, payload)
            [] msgType = MSG_SET_BRIGHTNESS -> handleSetBrightness(s, mac, payload)
            [] msgType = MSG_SET_FRAMERATE -> handleSetFrameRate(s, mac, payload)
            [] msgType = MSG_HEARTBEAT -> handleHeartbeat(s, mac, payload)
            [] msgType = MSG_SYNC_TIME -> handleSyncTime(s, mac, payload)
            [] OTHER -> s

\* ------------------------------------------------------------ fan-out
\* a faulty variant of isBroadcastTarget: the online flag is not looked at
isBroadcastTarget_AnyPaired(s, i) == s.peers[i].state = PEER_PAIRED

\* the test of broadcastToPeers on slot i
isBroadcastTarget(s, i) == s.peers[i].state = PEER_PAIRED /\ s.peers[i].online

\* broadcastToPeers: one sendMessage per slot that is PAIRED and online, in slot order
RECURSIVE broadcastFrom(_, _, _, _)
broadcastFrom(s, i, msgType, payload) ==
  IF i >= s.peerCount THEN s
  ELSE broadcastFrom(
         IF isBroadcastTarget(s, i)
         THEN sendMessage(s, s.peers[i].mac, msgType, payload) ELSE s,
         i + 1, msgType, payload)

broadcastToPeers(s, msgType, payload) == broadcastFrom(s, 0, msgType, payload)

\* the guard the four broadcastX share, then broadcastToPeers
broadcastIfMirror(s, msgType, payload) ==
  IF s.syncMode # SYNC_MIRROR \/ ~hasPairedPeer(s) THEN s
  ELSE broadcastToPeers(s, msgType, payload)

broadcastModeChange(s, mode, index) ==
  broadcastIfMirror(s, MSG_SET_MODE, ModePayload(mode, index))

broadcastPattern(s, p) ==
  broadcastIfMirror(s, MSG_SET_PATTERN,
                    PatternPayload(p[1], p[2], p[3], p[4], p[5], p[6], p[7], p[8], p[9]))

broadcastBrightness(s, brightness) ==
  broadcastIfMirror(s, MSG_SET_BRIGHTNESS, BrightnessPayload(brightness))

broadcastFrameRate(s, frameDelay) ==
  broadcastIfMirror(s, MSG_SET_FRAMERATE, FrameRatePayload(frameDelay))

\* a faulty variant of sendToPeer: an offline peer is skipped, as the broadcasts do
sendToPeer_OnlineOnly(s, peerIndex, msgType, payload) ==
  IF peerIndex < 0 \/ peerIndex >= s.peerCount THEN s
  ELSE IF s.peers[peerIndex].state # PEER_PAIRED \/ ~s.peers[peerIndex].online THEN s
  ELSE sendMessage(s, s.peers[peerIndex].mac, msgType, payload)

\* the guard the four sendPeerX share, then sendMessage to that slot
sendToPeer(s, peerIndex, msgType, payload) ==
  IF peerIndex < 0 \/ peerIndex >= s.peerCount THEN s
  ELSE IF s.peers[peerIndex].state # PEER_PAIRED THEN s
  ELSE sendMessage(s, s.peers[peerIndex].mac, msgType, payload)

sendPeerModeChange(s, peerIndex, mode, index) ==
  sendToPeer(s, peerIndex, MSG_SET_MODE, ModePayload(mode, index))

sendPeerPattern(s, peerIndex, p) ==
  sendToPeer(s, peerIndex, MSG_SET_PATTERN,
             PatternPayload(p[1], p[2], p[3], p[4], p[5], p[6], p[7], p[8], p[9]))

sendPeerBrightness(s, peerIndex, brightness) ==
  sendToPeer(s, peerIndex, MSG_SET_BRIGHTNESS, BrightnessPayload(brightness))

sendPeerFrameRate(s, peerIndex, frameDelay) ==
  sendToPeer(s, peerIndex, MSG_SET_FRAMERATE, FrameRatePayload(frameDelay))

\* ------------------------------------------------------------ periodic work
sendHeartbeat(s) ==
  sendMessage(s, BroadcastAddr, MSG_HEARTBEAT,
              HeartbeatPayload(s.localState.mode, s.localState.index,
                               s.localState.brightness, s.localState.frameDelay,
                               s.now, s.syncMode, LocalName))

sendTimeSync(s) == broadcastToPeers(s, MSG_SYNC_TIME, SyncTimePayload(s.now))

\* a faulty variant of isWithinTimeout: a peer heard exactly 10 s ago still counts as online
isWithinTimeout_Inclusive(s, i) == Elapsed(s.now, s.peers[i].lastSeen) <= OfflineTimeout

\* the value checkPeerTimeouts assigns to the online flag of a PAIRED slot
isWithinTimeout(s, i) == Elapsed(s.now, s.peers[i].lastSeen) < OfflineTimeout

\* a faulty variant of isStaleDiscovery: the state of the slot is not looked at
isStaleDiscovery_AnyState(s, i) == Elapsed(s.now, s.peers[i].lastSeen) > StaleTimeout

\* the test of checkPeerTimeouts that removes slot i
isStaleDiscovery(s, i) ==
  s.peers[i].state = PEER_PAIR_SENT /\ Elapsed(s.now, s.peers[i].lastSeen) > StaleTimeout

\* a faulty variant of checkFrom: the host is notified at every sweep that finds
\* the peer offline
RECURSIVE checkFrom_NotifyOffline(_, _)
checkFrom_NotifyOffline(s, i) ==
  IF i >= s.peerCount THEN s
  ELSE LET isOnline == isWithinTimeout(s, i)
           s1 == IF s.peers[i].state = PEER_PAIRED
                 THEN LET s0 == [s EXCEPT !.peers[i].online = isOnline]
                      IN IF ~isOnline
                         THEN Call(s0, "onPeerUpdate", <<s0.peers[i]>>) ELSE s0
                 ELSE s
       IN IF isStaleDiscovery(s1, i)
          THEN checkFrom_NotifyOffline(removePeerAt(delESPNowPeer(s1, s1.peers[i].mac), i), i)
          ELSE checkFrom_NotifyOffline(s1, i + 1)

\* checkPeerTimeouts, from slot i on: the online flag of a PAIRED slot, then the
\* removal of a PAIR_SENT slot older than 30 s (and the same index again)
RECURSIVE checkFrom(_, _)
checkFrom(s, i) ==
  IF i >= s.peerCount THEN s
  ELSE LET wasOnline == s.peers[i].online
           isOnline == isWithinTimeout(s, i)
           s1 == IF s.peers[i].state = PEER_PAIRED
                 THEN LET s0 == [s EXCEPT !.peers[i].online = isOnline]
                      IN IF wasOnline /\ ~isOnline
                         THEN Call(s0, "onPeerUpdate", <<s0.peers[i]>>) ELSE s0
                 ELSE s
       IN IF isStaleDiscovery(s1, i)
          THEN checkFrom(removePeerAt(delESPNowPeer(s1, s1.peers[i].mac), i), i)
          ELSE checkFrom(s1, i + 1)

checkPeerTimeouts(s) == checkFrom(s, 0)

\* a faulty variant of loop: the time sync does not look at the sync mode
loop_AnyMode(s) ==
  LET s1 == IF Elapsed(s.now, s.lastHeartbeat) > HeartbeatInterval
            THEN checkPeerTimeouts(sendHeartbeat([s EXCEPT !.lastHeartbeat = s.now]))
            ELSE s
  IN IF hasPairedPeer(s1) /\ Elapsed(s1.now, s1.lastTimeSync) > TimeSyncInterval
     THEN sendTimeSync([s1 EXCEPT !.lastTimeSync = s1.now])
     ELSE s1

\* a faulty variant of loop: the heartbeat goes out but the sweep is not run
loop_NoSweep(s) ==
  LET s1 == IF Elapsed(s.now, s.lastHeartbeat) > HeartbeatInterval
            THEN sendHeartbeat([s EXCEPT !.lastHeartbeat = s.now])
            ELSE s
  IN IF s1.syncMode = SYNC_MIRROR /\ hasPairedPeer(s1)
        /\ Elapsed(s1.now, s1.lastTimeSync) > TimeSyncInterval
     THEN sendTimeSync([s1 EXCEPT !.lastTimeSync = s1.now])
     ELSE s1

\* a faulty variant of loop: the heartbeat is due as soon as 2000 ms have elapsed
loop_AtInterval(s) ==
  LET s1 == IF Elapsed(s.now, s.lastHeartbeat) >= HeartbeatInterval
            THEN checkPeerTimeouts(sendHeartbeat([s EXCEPT !.lastHeartbeat = s.now]))
            ELSE s
  IN IF s1.syncMode = SYNC_MIRROR /\ hasPairedPeer(s1)
        /\ Elapsed(s1.now, s1.lastTimeSync) > TimeSyncInterval
     THEN sendTimeSync([s1 EXCEPT !.lastTimeSync = s1.now])
     ELSE s1

\* loop(): heartbeat and sweep every 2 s, time sync every 5 s in MIRROR mode
loop(s) ==
  LET s1 == IF Elapsed(s.now, s.lastHeartbeat) > HeartbeatInterval
            THEN checkPeerTimeouts(sendHeartbeat([s EXCEPT !.lastHeartbeat = s.now]))
            ELSE s
  IN IF s1.syncMode = SYNC_MIRROR /\ hasPairedPeer(s1)
        /\ Elapsed(s1.now, s1.lastTimeSync) > TimeSyncInterval
     THEN sendTimeSync([s1 EXCEPT !.lastTimeSync = s1.now])
     ELSE s1

\* ------------------------------------------------------------ host calls
setSyncMode(s, mode) == [s EXCEPT !.syncMode = mode]

setAutoPair(s, enabled) == [s EXCEPT !.autoPairEnabled = enabled]

setLocalState(s, mode, index, brightness, frameDelay) ==
  [s EXCEPT !.localState = [mode |-> mode, index |-> index,
                            brightness |-> brightness, frameDelay |-> frameDelay]]

\* a faulty variant of startPairing that keeps a PEER_PAIR_SENT record of the request
startPairing_KeepsRecord(s) ==
  LET r == addPeerSlot(s, BroadcastAddr)
      s1 == IF r.idx < 0 THEN r.s
            ELSE [r.s EXCEPT !.peers[r.idx].state = PEER_PAIR_SENT,
                             !.peers[r.idx].lastSeen = s.now]
  IN sendMessage(s1, BroadcastAddr, MSG_PAIR_REQUEST, PairPayload(LocalMac, LocalName, 0))

startPairing(s) ==
  sendMessage(s, BroadcastAddr, MSG_PAIR_REQUEST, PairPayload(LocalMac, LocalName, 0))

\* unpairAll, from slot i on: Unpair and esp_now_del_peer for every PAIRED slot
RECURSIVE unpairFrom(_, _)
unpairFrom(s, i) ==
  IF i >= s.peerCount THEN s
  ELSE unpairFrom(
         IF s.peers[i].state = PEER_PAIRED
         THEN delESPNowPeer(sendMessage(s, s.peers[i].mac, MSG_UNPAIR, <<>>),
                            s.peers[i].mac)
         ELSE s,
         i + 1)

unpairAll(s) ==
  [unpairFrom(s, 0) EXCEPT !.peerCount = 0, !.peers = [i \in Slots |-> ZeroPeer]]

\* a faulty variant of unpairPeer that notifies the peer but keeps its record
unpairPeer_KeepRecord(s, index) ==
  IF index < 0 \/ index >= s.peerCount THEN s
  ELSE IF s.peers[index].state = PEER_PAIRED
       THEN delESPNowPeer(sendMessage(s, s.peers[index].mac, MSG_UNPAIR, <<>>),
                          s.peers[index].mac)
       ELSE s

unpairPeer(s, index) ==
  IF index < 0 \/ index >= s.peerCount THEN s
  ELSE LET s1 == IF s.peers[index].state = PEER_PAIRED
                 THEN delESPNowPeer(
                        sendMessage(s, s.peers[index].mac, MSG_UNPAIR, <<>>),
                        s.peers[index].mac)
                 ELSE s
       IN removePeerAt(s1, index)

\* ------------------------------------------------------------ inputs
\* a datagram as a remote sendMessage frames it
Frame(msgType, seqno, payload) == <<SYNC_MAGIC_0, SYNC_MAGIC_1, msgType, seqno>> \o payload

NameB == <<80, 111, 105, 66>>

NameC == <<80, 111, 105, 67>>

Remotes == {MacOf(i) : i \in 1..NumRemotes}

RemotesLive == {MacOf(i) : i \in 1..NumRemotesLive}

RemotesFull == {MacOf(i) : i \in 1..NumRemotesFull}

PairRequestOf(m) == Frame(MSG_PAIR_REQUEST, 0, PairPayload(m, NameB, 0))

PairResponseOf(m, accepted) == Frame(MSG_PAIR_RESPONSE, 0, PairPayload(m, NameB, accepted))

HeartbeatOf(m) == Frame(MSG_HEARTBEAT, 0, HeartbeatPayload(1, 2, 3, 20, 7000, 0, NameC))

UnpairMsg == Frame(MSG_UNPAIR, 0, <<>>)

\* buffers the envelope check refuses: too short, or a wrong magic byte
BadEnvelopes(m) ==
  {<<>>, Take(PairRequestOf(m), 3),
   [PairRequestOf(m) EXCEPT ![1] = SYNC_MAGIC_1],
   [PairRequestOf(m) EXCEPT ![2] = SYNC_MAGIC_0],
   [UnpairMsg EXCEPT ![1] = 0]}

\* the clock steps of the liveness specification: sweeps fall 5 s, 10 s, ... and
\* more than 30 s after a message
Deltas == {5000, 26000}

DeltasPair == {5000}

DeltasCmd == {10000}

Op(kind, mac, data, arg) == [kind |-> kind, mac |-> mac, data |-> data, arg |-> arg]

\* ------------------------------------------------------------ actions
\* one operation: its effect on the object, the log of what it did
Step(s, o) ==
  /\ Apply(s)
  /\ op' = o
  /\ UNCHANGED <<tally, other, net, main>>

\* the receive callback: onRecvStatic -> handleMessage
Recv(mac, data) == Step(handleMessage(Cur, mac, data), Op("recv", mac, data, <<>>))

\* the accepted PairResponse datagrams among out that are addressed to mac
ResponsesTo(out, mac) ==
  Cardinality({k \in 1..Len(out) :
                 /\ out[k].mac = mac
                 /\ Len(out[k].data) = HeaderLen + SizeofPairPayload
                 /\ out[k].data[3] = MSG_PAIR_RESPONSE
                 /\ out[k].data[HeaderLen + SizeofPairPayload] = 1})

\* Recv, counting the PairRequests delivered with auto-pair on and a free slot
\* and the PairResponses sent back
RecvCounted(mac, data) ==
  LET s == handleMessage(Cur, mac, data)
  IN /\ Apply(s)
     /\ op' = Op("recv", mac, data, <<>>)
     /\ tally' = [tally EXCEPT
                    ![mac].req = @ + (IF /\ data = PairRequestOf(mac)
                                         /\ autoPairEnabled
                                         /\ peerCount < MAX_SYNC_PEERS
                                      THEN 1 ELSE 0),
                    ![mac].resp = @ + ResponsesTo(s.sent, mac)]
     /\ UNCHANGED <<other, net, main>>

\* millis() moves on between two operations
Advance(d, limit) ==
  /\ now + d <= limit
  /\ Step([Cur EXCEPT !.now = now + d], Op("advance", <<>>, <<>>, <<d>>))

Tick == Step(loop(Cur), Op("loop", <<>>, <<>>, <<>>))

UnpairPeer(index) == Step(unpairPeer(Cur, index), Op("unpairPeer", <<>>, <<>>, <<index>>))

UnpairAll == Step(unpairAll(Cur), Op("unpairAll", <<>>, <<>>, <<>>))

SetSyncMode(mode) == Step(setSyncMode(Cur, mode), Op("setSyncMode", <<>>, <<>>, <<mode>>))

SetAutoPair(enabled) ==
  Step(setAutoPair(Cur, enabled), Op("setAutoPair", <<>>, <<>>, <<enabled>>))

BroadcastModeChange(mode, index) ==
  Step(broadcastModeChange(Cur, mode, index),
       Op("broadcastModeChange", <<>>, <<>>, <<mode, index>>))

BroadcastPattern(p) == Step(broadcastPattern(Cur, p), Op("broadcastPattern", <<>>, <<>>, p))

BroadcastBrightness(brightness) ==
  Step(broadcastBrightness(Cur, brightness),
       Op("broadcastBrightness", <<>>, <<>>, <<brightness>>))

BroadcastFrameRate(frameDelay) ==
  Step(broadcastFrameRate(Cur, frameDelay),
       Op("broadcastFrameRate", <<>>, <<>>, <<frameDelay>>))

\* ------------------------------------------------------------ pairing specification
\* PairRequests (retransmitted at will), Unpair and refused envelopes from two
\* endpoints, auto-pair switched on and off, the clock at 0, 5 and 10 s
PairRequestIn == seq < MaxSeq /\ \E m \in Remotes : RecvCounted(m, PairRequestOf(m))

UnpairIn == seq < MaxSeq /\ \E m \in Remotes : Recv(m, UnpairMsg)

BadEnvelopeIn == seq < MaxSeq /\ \E m \in Remotes : \E d \in BadEnvelopes(m) : Recv(m, d)

HostSetAutoPair == seq < MaxSeq /\ \E b \in BOOLEAN : SetAutoPair(b)

ClockPair == seq < MaxSeq /\ \E d \in DeltasPair : Advance(d, MaxTimePair)

Next ==
  \/ PairRequestIn
  \/ UnpairIn
  \/ BadEnvelopeIn
  \/ HostSetAutoPair
  \/ ClockPair

Spec == Init /\ [][Next]_vars

\* ------------------------------------------------------------ liveness specification
\* one endpoint pairs, sends heartbeats or falls silent while the clock runs past
\* the 10 s and 30 s timeouts and loop() sweeps
PairRequestLive == seq < MaxSeq /\ \E m \in RemotesLive : Recv(m, PairRequestOf(m))

HeartbeatLive == seq < MaxSeq /\ \E m \in RemotesLive : Recv(m, HeartbeatOf(m))

UnpairLive == seq < MaxSeq /\ \E m \in RemotesLive : Recv(m, UnpairMsg)

ClockLive == seq < MaxSeq /\ \E d \in Deltas : Advance(d, MaxTimeLive)

TickLive == seq < MaxSeq /\ Tick

UnpairPeerLive == seq < MaxSeq /\ \E i \in -1..NumRemotesLive : UnpairPeer(i)

UnpairAllLive == seq < MaxSeq /\ UnpairAll

NextLive ==
  \/ PairRequestLive
  \/ HeartbeatLive
  \/ UnpairLive
  \/ ClockLive
  \/ TickLive
  \/ UnpairPeerLive
  \/ UnpairAllLive

SpecLive == Init /\ [][NextLive]_vars

\* ------------------------------------------------------------ silence specification
\* one endpoint pairs and sends heartbeats, then falls silent at least 10 s before the
\* clock stops; millis() keeps advancing and the main loop keeps calling loop()
NextQuiet ==
  \/ now + OfflineTimeout < MaxTimeLive /\ PairRequestLive
  \/ now + OfflineTimeout < MaxTimeLive /\ HeartbeatLive
  \/ \E d \in DeltasPair : Advance(d, MaxTimeLive)
  \/ Tick

\* millis() advances; the main loop calls loop() again and again, so a heartbeat that
\* is due does not stay due for ever: this is WF_vars(Tick) for the ticks that are due
\* (a due tick is always enabled and ends with _lastHeartbeat = now), without ENABLED
SpecQuiet ==
  /\ Init
  /\ [][NextQuiet]_vars
  /\ WF_vars(\E d \in DeltasPair : Advance(d, MaxTimeLive))
  /\ []<>(Elapsed(now, lastHeartbeat) <= HeartbeatInterval)

\* ------------------------------------------------------------ two-device specification
\* Two devices run the same code and hear each other over ESP-NOW, which may lose any
\* datagram.  The variables of the object are the first device, other is the second.
\* The code compares addresses only for equality and never reads the address inside a
\* payload, so each device is described in its own frame: itself at LocalMac, its peer
\* at MacOf(1).  Both clocks read the same; they step once, past the 10 s and 30 s
\* timeouts.  At most the datagrams of one operation
\* are in flight at a time.  The host of the first device calls the four broadcasts
\* and the four sendPeerX with two value tuples each, on the slots of the table and
\* beside it; the host of the second calls one of each family.
\* one step of the pair: the objects a and b after it, the datagrams still in flight,
\* and whatever a and b handed to esp_now_send during it
Duo(a, b, inflight, o) ==
  /\ Apply(a)
  /\ other' = b
  /\ net' = inflight
              \cup {[to |-> "other", data |-> a.sent[k].data] : k \in 1..Len(a.sent)}
              \cup {[to |-> "this", data |-> b.sent[k].data] : k \in 1..Len(b.sent)}
  /\ op' = o
  /\ UNCHANGED <<tally, main>>

NextDuo ==
  LET b == [other EXCEPT !.sent = <<>>, !.calls = <<>>]
  IN \/ /\ op.kind = "begin"
        /\ Duo(startPairing(Cur), b, net, Op("startPairing", <<>>, <<>>, <<>>))
     \/ \E d \in net :
          /\ d.to = "this"
          /\ Duo(handleMessage(Cur, MacOf(1), d.data), b, net \ {d},
                 Op("recv", MacOf(1), d.data, <<>>))
     \/ \E d \in net :
          /\ d.to = "other"
          /\ Duo(Cur, handleMessage(b, MacOf(1), d.data), net \ {d},
                 Op("recvOther", MacOf(1), d.data, <<>>))
     \/ \E d \in net : Duo(Cur, b, net \ {d}, Op("lost", <<>>, <<>>, <<>>))
     \/ /\ net = {} /\ seq < MaxSeqFull
        /\ \E v \in {<<2, 5>>, <<255, 0>>} :
             Duo(broadcastModeChange(Cur, v[1], v[2]), b, net,
                 Op("broadcastModeChange", <<>>, <<>>, v))
     \/ /\ net = {} /\ seq < MaxSeqFull
        /\ \E v \in {<<1, 2, 3, 4, 5, 6, 7, 8, 9>>,
                       <<255, 0, 255, 0, 255, 0, 255, 0, 255>>} :
             Duo(broadcastPattern(Cur, v), b, net, Op("broadcastPattern", <<>>, <<>>, v))
     \/ /\ net = {} /\ seq < MaxSeqFull
        /\ \E v \in {<<200>>, <<0>>} :
             Duo(broadcastBrightness(Cur, v[1]), b, net,
                 Op("broadcastBrightness", <<>>, <<>>, v))
     \/ /\ net = {} /\ seq < MaxSeqFull
        /\ \E v \in {<<200>>, <<0>>} :
             Duo(broadcastFrameRate(Cur, v[1]), b, net,
                 Op("broadcastFrameRate", <<>>, <<>>, v))
     \/ /\ net = {} /\ seq < MaxSeqFull
        /\ \E i \in -1..1 : \E v \in {<<2, 5>>, <<255, 0>>} :
             Duo(sendPeerModeChange(Cur, i, v[1], v[2]), b, net,
                 Op("sendPeerModeChange", <<>>, <<i>>, v))
     \/ /\ net = {} /\ seq < MaxSeqFull
        /\ \E i \in -1..1 : \E v \in {<<1, 2, 3, 4, 5, 6, 7, 8, 9>>,
                       <<255, 0, 255, 0, 255, 0, 255, 0, 255>>} :
             Duo(sendPeerPattern(Cur, i, v), b, net, Op("sendPeerPattern", <<>>, <<i>>, v))
     \/ /\ net = {} /\ seq < MaxSeqFull
        /\ \E i \in -1..1 : \E v \in {<<200>>, <<0>>} :
             Duo(sendPeerBrightness(Cur, i, v[1]), b, net,
                 Op("sendPeerBrightness", <<>>, <<i>>, v))
     \/ /\ net = {} /\ seq < MaxSeqFull
        /\ \E i \in -1..1 : \E v \in {<<200>>, <<0>>} :
             Duo(sendPeerFrameRate(Cur, i, v[1]), b, net,
                 Op("sendPeerFrameRate", <<>>, <<i>>, v))
     \/ /\ net = {} /\ b.seq < MaxSeqFull
        /\ \E v \in {<<200>>, <<0>>} :
             Duo(Cur, broadcastBrightness(b, v[1]), net,
                 Op("broadcastBrightnessOther", <<>>, <<>>, v))
     \/ /\ net = {} /\ b.seq < MaxSeqFull
        /\ \E i \in -1..1 : \E v \in {<<2, 5>>, <<255, 0>>} :
             Duo(Cur, sendPeerModeChange(b, i, v[1], v[2]), net,
                 Op("sendPeerModeChangeOther", <<>>, <<i>>, v))
     \/ net = {} /\ Duo(loop(Cur), b, net, Op("loop", <<>>, <<>>, <<>>))
     \/ net = {} /\ Duo(Cur, loop(b), net, Op("loopOther", <<>>, <<>>, <<>>))
     \/ \E d \in {MaxTimeLive} :
          /\ now + d <= MaxTimeLive
          /\ Duo([Cur EXCEPT !.now = now + d], [b EXCEPT !.now = now + d], net,
                 Op("advance", <<>>, <<>>, <<d>>))

\* millis() advances; every datagram is delivered or lost after a while; each main loop
\* calls loop() again and again, so no heartbeat stays due for ever (WF_vars of the two
\* ticks and of delivery-or-loss, written without ENABLED)
SpecDuo ==
  /\ Init
  /\ [][NextDuo]_vars
  /\ WF_vars(\E d \in {MaxTimeLive} :
               /\ now + d <= MaxTimeLive
               /\ Duo([Cur EXCEPT !.now = now + d], [other EXCEPT !.now = now + d], net,
                      Op("advance", <<>>, <<>>, <<d>>)))
  /\ []<>(net = {})
  /\ []<>(Elapsed(now, lastHeartbeat) <= HeartbeatInterval)
  /\ []<>(Elapsed(other.now, other.lastHeartbeat) <= HeartbeatInterval)

\* ------------------------------------------------------------ command specification
\* two endpoints pair before or after a 10 s step, a sweep marks the silent one
\* offline, the host switches the sync mode and calls the four broadcastX
PairRequestCmd == seq < MaxSeq /\ \E m \in Remotes : Recv(m, PairRequestOf(m))

ClockCmd == seq < MaxSeq /\ \E d \in DeltasCmd : Advance(d, MaxTimeCmd)

TickCmd == seq < MaxSeq /\ Tick

HostSetSyncMode ==
  seq < MaxSeq /\ \E mode \in {SYNC_MIRROR, SYNC_INDEPENDENT} : SetSyncMode(mode)

HostBroadcastModeChange == seq < MaxSeq /\ BroadcastModeChange(2, 5)

HostBroadcastPattern == seq < MaxSeq /\ BroadcastPattern(<<1, 2, 3, 4, 5, 6, 7, 8, 9>>)

HostBroadcastBrightness == seq < MaxSeq /\ BroadcastBrightness(200)

HostBroadcastFrameRate == seq < MaxSeq /\ BroadcastFrameRate(33)

\* the four sendPeerX, below the table, on its slots and beyond it; the operation
\* log keeps the index in data and the payload bytes in arg
HostSendPeerModeChange ==
  /\ seq < MaxSeq
  /\ \E i \in -1..NumRemotes :
       Step(sendPeerModeChange(Cur, i, 2, 5), Op("sendPeerModeChange", <<>>, <<i>>, <<2, 5>>))

HostSendPeerPattern ==
  /\ seq < MaxSeq
  /\ \E i \in -1..NumRemotes :
       Step(sendPeerPattern(Cur, i, <<1, 2, 3, 4, 5, 6, 7, 8, 9>>),
            Op("sendPeerPattern", <<>>, <<i>>, <<1, 2, 3, 4, 5, 6, 7, 8, 9>>))

HostSendPeerBrightness ==
  /\ seq < MaxSeq
  /\ \E i \in -1..NumRemotes :
       Step(sendPeerBrightness(Cur, i, 200), Op("sendPeerBrightness", <<>>, <<i>>, <<200>>))

HostSendPeerFrameRate ==
  /\ seq < MaxSeq
  /\ \E i \in -1..NumRemotes :
       Step(sendPeerFrameRate(Cur, i, 33), Op("sendPeerFrameRate", <<>>, <<i>>, <<33>>))

HeartbeatCmd == seq < MaxSeq /\ \E m \in Remotes : Recv(m, HeartbeatOf(m))

NextCmd ==
  \/ PairRequestCmd
  \/ ClockCmd
  \/ TickCmd
  \/ HostSetSyncMode
  \/ HostBroadcastModeChange
  \/ HostBroadcastPattern
  \/ HostBroadcastBrightness
  \/ HostBroadcastFrameRate
  \/ HostSendPeerModeChange
  \/ HostSendPeerPattern
  \/ HostSendPeerBrightness
  \/ HostSendPeerFrameRate
  \/ HeartbeatCmd

SpecCmd == Init /\ [][NextCmd]_vars

\* ------------------------------------------------------------ capacity specification
\* seven endpoints against the six slots: PairRequest, PairResponse, Unpair and
\* Heartbeat from each, loop(), unpairPeer and unpairAll, the clock at BootTime.
\* The code compares addresses only for equality, so endpoints are interchangeable:
\* a sender that is not in the table is taken to be the lowest-numbered absent one,
\* and the senders that are in it are those of the first and of the last slot.
InitFull == InitAt(BootTime)

Registered == {peers[i].mac : i \in 0..(peerCount - 1)}

SendersFull ==
  {peers[i].mac : i \in {0, peerCount - 1} \cap 0..(peerCount - 1)}
    \cup {MacOf(n) : n \in {k \in 1..NumRemotesFull :
                              /\ MacOf(k) \notin Registered
                              /\ \A j \in 1..(k - 1) : MacOf(j) \in Registered}}

\* unpairPeer is called below the table, on its first and third slot, and beyond it
IndexesFull == {-1, 0, 2, MAX_SYNC_PEERS}

\* a heartbeat that repeats what the PairRequest or PairResponse of the endpoint said
HeartbeatSameOf(m) == Frame(MSG_HEARTBEAT, 0, HeartbeatPayload(0, 0, 0, 20, 7000, 0, NameB))

PairRequestFull == seq < MaxSeqFull /\ \E m \in SendersFull : Recv(m, PairRequestOf(m))

PairResponseFull == seq < MaxSeqFull /\ \E m \in SendersFull : Recv(m, PairResponseOf(m, 1))

UnpairFull == seq < MaxSeqFull /\ \E m \in SendersFull : Recv(m, UnpairMsg)

HeartbeatFull == seq < MaxSeqFull /\ \E m \in SendersFull : Recv(m, HeartbeatSameOf(m))

TickFull == seq < MaxSeqFull /\ Tick

UnpairPeerFull == seq < MaxSeqFull /\ \E i \in IndexesFull : UnpairPeer(i)

UnpairAllFull == seq < MaxSeqFull /\ UnpairAll

NextFull ==
  \/ PairRequestFull
  \/ PairResponseFull
  \/ UnpairFull
  \/ HeartbeatFull
  \/ TickFull
  \/ UnpairPeerFull
  \/ UnpairAllFull

SpecFull == InitFull /\ [][NextFull]_vars

\* ------------------------------------------------------------ sweep specification
\* loop() applied to a table of up to two records in any state, heard 0 or 1 s after
\* start, at a clock of 2000 or 2001 ms and of 30 or 31 s, in either sync mode
NumSweepPeers == 2

SweepPeerStates == {PEER_DISCOVERING, PEER_PAIR_SENT, PEER_PAIRED}

SweepLastSeen == {0, 1000}

SweepNow == {HeartbeatInterval, HeartbeatInterval + 1, 30000, 31000}

InitSweep ==
  \E n \in 0..NumSweepPeers :
    \E st \in [0..(n - 1) -> SweepPeerStates] :
      \E ls \in [0..(n - 1) -> SweepLastSeen] :
        \E on \in [0..(n - 1) -> BOOLEAN] :
          \E t \in SweepNow :
            InitWith(t,
                     [i \in Slots |->
                        IF i < n
                        THEN [ZeroPeer EXCEPT !.mac = MacOf(i + 1), !.name = NameB,
                                              !.state = st[i], !.lastSeen = ls[i],
                                              !.online = on[i]]
                        ELSE ZeroPeer],
                     n,
                     {BroadcastAddr} \cup {MacOf(i + 1) : i \in 0..(n - 1)})

\* the endpoints of the records the sweep is run on
SweepMacs == {MacOf(i) : i \in 1..NumSweepPeers}

TickSweep == Tick

NextSweep ==
  \/ TickSweep
  \/ HostSetSyncMode

SpecSweep == InitSweep /\ [][NextSweep]_vars

\* ------------------------------------------------------------ message specification
\* two endpoints send every handled message type, some before they are paired;
\* auto-pair is switched on and off; the clock reads ClockMsg at the first message
\* and steps once by 5 s
\* the four commands, as the broadcastX of a remote frame them, and each of them with
\* the last byte of its payload missing
CommandMsgs ==
  LET whole == {Frame(MSG_SET_MODE, 0, ModePayload(2, 5)),
                Frame(MSG_SET_PATTERN, 0, PatternPayload(1, 2, 3, 4, 5, 6, 7, 8, 9)),
                Frame(MSG_SET_BRIGHTNESS, 0, BrightnessPayload(200)),
                Frame(MSG_SET_FRAMERATE, 0, FrameRatePayload(33))}
  IN whole \cup {Take(d, Len(d) - 1) : d \in whole}

SyncTimeOf(t) == Frame(MSG_SYNC_TIME, 0, SyncTimePayload(t))

\* the clock of the sender ahead of the local clock and behind it, and a SyncTime
\* whose payload is one byte short
SyncTimeMsgs ==
  {SyncTimeOf(50000), SyncTimeOf(2000),
   Frame(MSG_SYNC_TIME, 0, Take(SyncTimePayload(50000), SizeofSyncTimePayload - 1))}

PairRequestMsg == seq < MaxSeqMsg /\ \E m \in Remotes : Recv(m, PairRequestOf(m))

PairResponseMsg ==
  seq < MaxSeqMsg /\ \E m \in Remotes : \E a \in {0, 1} : Recv(m, PairResponseOf(m, a))

CommandMsg == seq < MaxSeqMsg /\ \E m \in Remotes : \E d \in CommandMsgs : Recv(m, d)

HeartbeatMsg == seq < MaxSeqMsg /\ \E m \in Remotes : Recv(m, HeartbeatSameOf(m))

SyncTimeMsg == seq < MaxSeqMsg /\ \E m \in Remotes : \E d \in SyncTimeMsgs : Recv(m, d)

\* the device hears its own transmissions: every kind of datagram arrives with the
\* local address as its sender
LoopbackMsg ==
  /\ seq < MaxSeqMsg
  /\ \E d \in {PairRequestOf(LocalMac), PairResponseOf(LocalMac, 1), UnpairMsg,
               HeartbeatSameOf(LocalMac)} \cup CommandMsgs \cup SyncTimeMsgs :
       Recv(LocalMac, d)

HostSetAutoPairMsg == seq < MaxSeqMsg /\ \E b \in BOOLEAN : SetAutoPair(b)

ClockStepMsg == seq < MaxSeqMsg /\ \E d \in DeltasPair : Advance(d, ClockMsg + MaxTimeMsg)

NextMsg ==
  \/ PairRequestMsg
  \/ PairResponseMsg
  \/ CommandMsg
  \/ HeartbeatMsg
  \/ SyncTimeMsg
  \/ LoopbackMsg
  \/ HostSetAutoPairMsg
  \/ ClockStepMsg

SpecMsg == InitAt(ClockMsg) /\ [][NextMsg]_vars

\* ------------------------------------------------------------ wrap-around specification
\* One remote device and a clock that starts BootTime before it wraps to 0: the
\* peer pairs and is heard before or after the wrap, SyncTime carries a remote
\* clock on either side of its own wrap, and the periodic work runs on both sides.
NextWrap ==
  \/ PairRequestLive
  \/ HeartbeatLive
  \/ \E m \in RemotesLive : \E t \in {ClockWrap - 1000, 1000} : Recv(m, SyncTimeOf(t))
  \/ \E d \in DeltasPair :
       /\ Elapsed(now, ClockWrap - BootTime) + d <= MaxTimeWrap
       /\ Step([Cur EXCEPT !.now = (now + d) % ClockWrap], Op("advance", <<>>, <<>>, <<d>>))
  \/ TickLive

SpecWrap == InitAt(ClockWrap - BootTime) /\ [][NextWrap]_vars

\* ------------------------------------------------------------ offline specification
\* One endpoint pairs and falls silent until a sweep marks it offline, then keeps
\* sending commands and SyncTime, or is heard again; meanwhile the host keeps calling
\* the four broadcasts and loop().
NextOffline ==
  \/ seq < MaxSeq /\ Recv(MacOf(1), PairRequestOf(MacOf(1)))
  \/ seq < MaxSeq /\ Recv(MacOf(1), HeartbeatOf(MacOf(1)))
  \/ seq < MaxSeq /\ Recv(MacOf(1), PairResponseOf(MacOf(1), 1))
  \/ seq < MaxSeq /\
       \E d \in {Frame(MSG_SET_MODE, 0, ModePayload(2, 5)),
                 Frame(MSG_SET_PATTERN, 0, PatternPayload(1, 2, 3, 4, 5, 6, 7, 8, 9)),
                 Frame(MSG_SET_BRIGHTNESS, 0, BrightnessPayload(200)),
                 Frame(MSG_SET_FRAMERATE, 0, FrameRatePayload(33)),
                 SyncTimeOf(50000)} : Recv(MacOf(1), d)
  \/ \E d \in DeltasPair : Advance(d, MaxTimeIdle)
  \/ TickLive
  \/ HostBroadcastModeChange
  \/ HostBroadcastPattern
  \/ HostBroadcastBrightness
  \/ HostBroadcastFrameRate

SpecOffline == Init /\ [][NextOffline]_vars

\* ------------------------------------------------------------ host specification
\* Two endpoints pair, a 10 s step and a sweep mark the silent ones offline, and the
\* host calls every operation that configures the object or sends a command: on an
\* empty table and on a table with online and offline records.
NextHost ==
  \/ seq < MaxSeqHost /\ \E m \in {MacOf(1), MacOf(2)} : Recv(m, PairRequestOf(m))
  \/ \E d \in {OfflineTimeout} : Advance(d, MaxTimeIdle)
  \/ seq < MaxSeqHost /\ Tick
  \/ seq < MaxSeqHost /\ Step(startPairing(Cur), Op("startPairing", <<>>, <<>>, <<>>))
  \/ HostSetSyncMode
  \/ HostSetAutoPair
  \/ \E v \in {<<2, 5, 200, 33>>} :
       Step(setLocalState(Cur, v[1], v[2], v[3], v[4]), Op("setLocalState", <<>>, <<>>, v))
  \/ seq < MaxSeqHost /\ HostBroadcastModeChange
  \/ seq < MaxSeqHost /\ HostBroadcastPattern
  \/ seq < MaxSeqHost /\ HostBroadcastBrightness
  \/ seq < MaxSeqHost /\ HostBroadcastFrameRate
  \/ seq < MaxSeqHost /\ HostSendPeerModeChange
  \/ seq < MaxSeqHost /\ HostSendPeerPattern
  \/ seq < MaxSeqHost /\ HostSendPeerBrightness
  \/ seq < MaxSeqHost /\ HostSendPeerFrameRate

SpecHost == Init /\ [][NextHost]_vars

\* ------------------------------------------------------------ preemption specification
\* The receive callback runs in the WiFi task and the host calls unpairPeer from the
\* main loop; nothing is locked, so a whole handleMessage may run between any two
\* steps of unpairPeer: the index check, the notification of the peer, each turn of
\* the shift loop, the decrement and the memset.  Two endpoints pair and unpair.
\* A memset at a slot outside the table is undefined: the bytes it writes lie before
\* the object, so the object is left as it is, or the program stops.  Once peerCount
\* is negative no further operation is followed.
\* one step of the main loop inside unpairPeer: the object after it and where the
\* main loop stands
MainStep(s, o, m) ==
  /\ Apply(s)
  /\ op' = o
  /\ main' = m
  /\ UNCHANGED <<tally, other, net>>

NextRace ==
  \/ /\ main.pc # "fault" /\ peerCount >= 0 /\ seq < MaxSeq
     /\ \E m \in {MacOf(1), MacOf(2)} : Recv(m, PairRequestOf(m))
  \/ /\ main.pc # "fault" /\ peerCount >= 0
     /\ \E m \in {MacOf(1), MacOf(2)} : Recv(m, UnpairMsg)
  \/ /\ main.pc = "idle" /\ peerCount >= 0 /\ seq < MaxSeq
     /\ \E index \in -1..2 :
          MainStep(Cur, Op("unpairPeer", <<>>, <<>>, <<index>>),
                   IF index < 0 \/ index >= peerCount THEN main
                   ELSE [pc |-> "notify", index |-> index, i |-> index])
  \/ /\ main.pc = "notify"
     /\ MainStep(IF peers[main.index].state = PEER_PAIRED
                 THEN delESPNowPeer(sendMessage(Cur, peers[main.index].mac, MSG_UNPAIR, <<>>),
                                    peers[main.index].mac)
                 ELSE Cur,
                 Op("unpairPeer.notify", <<>>, <<>>, <<main.index>>),
                 [main EXCEPT !.pc = "shift", !.i = main.index])
  \/ /\ main.pc = "shift" /\ main.i < peerCount - 1
     /\ MainStep([Cur EXCEPT !.peers[main.i] = peers[main.i + 1]],
                 Op("unpairPeer.shift", <<>>, <<>>, <<main.i>>),
                 [main EXCEPT !.i = @ + 1])
  \/ /\ main.pc = "shift" /\ ~(main.i < peerCount - 1)
     /\ MainStep([Cur EXCEPT !.peerCount = @ - 1],
                 Op("unpairPeer.decrement", <<>>, <<>>, <<>>),
                 [main EXCEPT !.pc = "clear"])
  \/ /\ main.pc = "clear" /\ peerCount \in Slots
     /\ MainStep([Cur EXCEPT !.peers[peerCount] = ZeroPeer],
                 Op("unpairPeer.clear", <<>>, <<>>, <<peerCount>>),
                 [main EXCEPT !.pc = "idle"])
  \/ /\ main.pc = "clear" /\ peerCount \notin Slots
     /\ \E outcome \in {"idle", "fault"} :
          MainStep(Cur, Op("unpairPeer.clear", <<>>, <<>>, <<peerCount>>),
                   [main EXCEPT !.pc = outcome])

SpecRace == Init /\ [][NextRace]_vars

\* ------------------------------------------------------------ send specification
\* sendMessage with payloads of every interesting length, over any bytes left on the
\* stack, and broadcasts to up to two paired endpoints, until _seq has wrapped
\* (payload lengths: none, a heartbeat, and around the 246 bytes memcpy stops at)
NextSend ==
  \/ PairRequestCmd
  \/ BroadcastBrightness(200)
  \/ \E n \in {0, SizeofHeartbeatPayload, 244, 245, 246, 247, 251, 252, 255} :
       \E st \in {Zeros(6), <<238, 238, 238, 238, 238, 238>>} :
         Step(sendMessage([Cur EXCEPT !.stale = st], BroadcastAddr, MSG_HEARTBEAT,
                          [i \in 1..n |-> i]),
              Op("sendMessage", BroadcastAddr, <<>>, <<n>>))

SpecSend == Init /\ [][NextSend]_vars

\* ------------------------------------------------------------ observers
RecordsOf(m) == {i \in 0..(peerCount - 1) : peers[i].mac = m}

InRegistry(m) == RecordsOf(m) # {}

PairedIn(m) == \E i \in RecordsOf(m) : peers[i].state = PEER_PAIRED

\* the registry: the records and their count
registry == <<peers, peerCount>>

\* everything of the object but the logs of the last operation
object == <<peers, peerCount, syncMode, seq, lastHeartbeat, lastTimeSync, timeOffset,
            autoPairEnabled, localState, now, espPeers>>

IsRecv(o, m, d) == o.kind = "recv" /\ o.mac = m /\ o.data = d

\* the loop() of this step broadcast a heartbeat, so it ran the sweep
SweptBy(o, out) ==
  /\ o.kind = "loop"
  /\ Len(out) >= 1
  /\ out[1].mac = BroadcastAddr
  /\ out[1].data[3] = MSG_HEARTBEAT

\* the payload size each handler asks for
PayloadSize(msgType) ==
  CASE msgType = MSG_PAIR_REQUEST -> SizeofPairPayload
    [] msgType = MSG_PAIR_RESPONSE -> SizeofPairPayload
    [] msgType = MSG_SET_MODE -> SizeofModePayload
    [] msgType = MSG_SET_PATTERN -> SizeofPatternPayload
    [] msgType = MSG_SET_BRIGHTNESS -> SizeofBrightnessPayload
    [] msgType = MSG_SET_FRAMERATE -> SizeofFrameRatePayload
    [] msgType = MSG_HEARTBEAT -> SizeofHeartbeatPayload
    [] msgType = MSG_SYNC_TIME -> SizeofSyncTimePayload

\* operation o delivered, from m, a datagram of a handled type that passes the
\* envelope check and the length check of its handler
WellFormedFrom(o, m) ==
  /\ o.kind = "recv"
  /\ o.mac = m
  /\ Len(o.data) >= HeaderLen
  /\ o.data[1] = SYNC_MAGIC_0
  /\ o.data[2] = SYNC_MAGIC_1
  /\ o.data[3] \in {MSG_PAIR_REQUEST, MSG_PAIR_RESPONSE, MSG_SET_MODE, MSG_SET_PATTERN,
                    MSG_SET_BRIGHTNESS, MSG_SET_FRAMERATE, MSG_HEARTBEAT, MSG_SYNC_TIME}
  /\ Len(o.data) - HeaderLen >= PayloadSize(o.data[3])

\* ------------------------------------------------------------ claims
\* C1: every delivery of the PairRequest of an endpoint to a device with auto-pair on
\* and a free slot leaves exactly one record for that endpoint, in state PAIRED; a
\* PairRequest from an endpoint that is already in the registry never increases the
\* peer count.
C1_PairRequestIdempotent ==
  [][\A m \in Remotes :
       IsRecv(op', m, PairRequestOf(m)) =>
         /\ (autoPairEnabled /\ peerCount < MAX_SYNC_PEERS) =>
              /\ Cardinality(RecordsOf(m)') = 1
              /\ \A i \in RecordsOf(m)' : peers'[i].state = PEER_PAIRED
         /\ InRegistry(m) => peerCount' <= peerCount]_vars

\* the PairRequest of an endpoint was delivered at least twice and one PAIRED record holds it
C1_Witness ==
  \E m \in Remotes :
    /\ IsRecv(op, m, PairRequestOf(m))
    /\ tally[m].req >= 2
    /\ Cardinality(RecordsOf(m)) = 1
    /\ PairedIn(m)
    /\ peerCount = 2

\* C2 as stated: however often the PairRequest of an endpoint is delivered (at least
\* once, auto-pair on, a free slot), one PairResponse{accepted=1} in total goes back.
C2_OneResponseInTotal ==
  \A m \in Remotes : tally[m].req >= 1 => tally[m].resp = 1

\* C2 as the code has it: every such delivery is answered, so N deliveries of the
\* PairRequest send N PairResponse{accepted=1} to the endpoint, one per delivery.
C2_OneResponsePerDelivery ==
  \A m \in Remotes :
    /\ tally[m].resp = tally[m].req
    /\ (IsRecv(op, m, PairRequestOf(m)) /\ autoPairEnabled) =>
         sent = <<[mac |-> m,
                   data |-> Frame(MSG_PAIR_RESPONSE, (seq - 1) % 256,
                                  PairPayload(LocalMac, LocalName, 1))]>>

\* the same PairRequest was delivered three times and answered three times
C2_Witness ==
  \E m \in Remotes :
    /\ IsRecv(op, m, PairRequestOf(m))
    /\ tally[m].req = 3
    /\ tally[m].resp = 3
    /\ Len(sent) = 1

\* C9: a PairRequest from an endpoint that is not in the registry, with auto-pair on
\* and fewer than 6 records, appends one record for the sender in that step (PAIRED,
\* online, lastSeen = now, the name of the request), keeps the other records, sends
\* one PairResponse{accepted=1} to the sender, and no record is ever DISCOVERING or
\* PAIR_SENT.
C9_PairedInOneStep ==
  [][/\ \A m \in Remotes :
          (/\ IsRecv(op', m, PairRequestOf(m))
           /\ ~InRegistry(m)
           /\ autoPairEnabled
           /\ peerCount < MAX_SYNC_PEERS) =>
            /\ peerCount' = peerCount + 1
            /\ peers' = [peers EXCEPT ![peerCount] =
                           [mac |-> m, name |-> NameB, state |-> PEER_PAIRED,
                            lastSeen |-> now, currentMode |-> 0, currentIndex |-> 0,
                            brightness |-> 0, online |-> TRUE]]
            /\ sent' = <<[mac |-> m,
                          data |-> Frame(MSG_PAIR_RESPONSE, seq,
                                         PairPayload(LocalMac, LocalName, 1))]>>
     /\ \A i \in 0..(peerCount' - 1) :
          peers'[i].state \notin {PEER_DISCOVERING, PEER_PAIR_SENT}]_vars

\* a second endpoint was paired at 5 s: its record is the last, heard at 5 s
C9_Witness ==
  \E m \in Remotes :
    /\ IsRecv(op, m, PairRequestOf(m))
    /\ now = 5000
    /\ peerCount = 2
    /\ peers[1].mac = m
    /\ peers[1].lastSeen = now
    /\ peers[0].lastSeen = 0
    /\ Len(sent) = 1

\* C8: a buffer shorter than 4 bytes, or whose first two bytes are not 0x4E 0x50,
\* changes nothing of the object, invokes no callback and sends no datagram.
C8_BadEnvelopeDropped ==
  [][(/\ op'.kind = "recv"
      /\ \/ Len(op'.data) < 4
         \/ op'.data[1] # 78
         \/ op'.data[2] # 80) =>
       /\ UNCHANGED object
       /\ sent' = <<>>
       /\ calls' = <<>>]_vars

\* a PairRequest with a wrong second magic byte came from an endpoint that is not in
\* the registry, while another one is
C8_Witness ==
  /\ op.kind = "recv"
  /\ Len(op.data) = HeaderLen + SizeofPairPayload
  /\ op.data[1] = 78
  /\ op.data[2] # 80
  /\ op.data[3] = MSG_PAIR_REQUEST
  /\ ~InRegistry(op.mac)
  /\ autoPairEnabled
  /\ peerCount = 1

\* C3: the registry always holds between 0 and 6 records, and no two of them have the
\* same endpoint address.
C3_RegistryBoundedAndUnique ==
  /\ peerCount \in 0..MAX_SYNC_PEERS
  /\ \A i, j \in 0..(peerCount - 1) : i # j => peers[i].mac # peers[j].mac

\* six records, and a seventh endpoint has just asked to pair
C3_Witness ==
  /\ peerCount = MAX_SYNC_PEERS
  /\ op.kind = "recv"
  /\ op.data = PairRequestOf(op.mac)
  /\ ~InRegistry(op.mac)
  /\ \A i \in Slots : peers[i].state = PEER_PAIRED

\* C10: a PairRequest from an endpoint that is not in the registry, received while the
\* registry holds 6 records, leaves the registry as it was, sends nothing and invokes
\* no callback.
C10_FullRegistryIgnores ==
  [][\A m \in RemotesFull :
       (/\ IsRecv(op', m, PairRequestOf(m))
        /\ ~InRegistry(m)
        /\ peerCount = MAX_SYNC_PEERS) =>
         /\ UNCHANGED registry
         /\ sent' = <<>>
         /\ calls' = <<>>]_vars

\* the request of the seventh endpoint was handled with auto-pair on: nothing went out
C10_Witness ==
  /\ peerCount = MAX_SYNC_PEERS
  /\ autoPairEnabled
  /\ op.kind = "recv"
  /\ op.data = PairRequestOf(op.mac)
  /\ op.mac \in RemotesFull
  /\ ~InRegistry(op.mac)
  /\ sent = <<>>
  /\ calls = <<>>

\* C4: a sweep gives every PAIRED record online = (now - lastSeen < 10000), so it
\* leaves online true while less than 10 s have passed and clears it at the first
\* sweep from 10 s on; nothing else ever takes a record from online to offline.
C4_OfflineAtTenSeconds ==
  [][\A m \in RemotesLive :
       \A i \in RecordsOf(m) :
         \A j \in RecordsOf(m)' :
           /\ (peers[i].state = PEER_PAIRED /\ SweptBy(op', sent')) =>
                peers'[j].online = (now - peers[i].lastSeen < 10000)
           /\ (peers[i].state = PEER_PAIRED /\ peers[i].online /\ ~peers'[j].online) =>
                /\ SweptBy(op', sent')
                /\ now - peers[i].lastSeen >= 10000]_vars

\* the sweep at exactly 10 s of silence has just cleared the flag and notified the host
C4_Witness ==
  \E m \in RemotesLive :
    \E i \in RecordsOf(m) :
      /\ SweptBy(op, sent)
      /\ peers[i].state = PEER_PAIRED
      /\ ~peers[i].online
      /\ now - peers[i].lastSeen = 10000
      /\ calls = <<[cb |-> "onPeerUpdate", args |-> <<peers[i]>>]>>

\* C5: loop() never removes a PAIRED record, however old; a PAIRED record leaves the
\* registry only by an Unpair received from its endpoint, by unpairPeer on its index
\* or by unpairAll.
C5_PairedLeavesOnlyByUnpair ==
  [][\A m \in RemotesLive :
       PairedIn(m) =>
         /\ op'.kind = "loop" => PairedIn(m)'
         /\ ~InRegistry(m)' =>
              \/ /\ op'.kind = "recv"
                 /\ op'.mac = m
                 /\ op'.data = UnpairMsg
              \/ /\ op'.kind = "unpairPeer"
                 /\ op'.arg[1] \in RecordsOf(m)
              \/ op'.kind = "unpairAll"]_vars

\* a sweep has just run over a PAIRED record that was last heard 31 s ago
C5_Witness ==
  \E m \in RemotesLive :
    \E i \in RecordsOf(m) :
      /\ SweptBy(op, sent)
      /\ peers[i].state = PEER_PAIRED
      /\ now - peers[i].lastSeen > StaleTimeout

BroadcastType(kind) ==
  CASE kind = "broadcastModeChange" -> MSG_SET_MODE
    [] kind = "broadcastPattern" -> MSG_SET_PATTERN
    [] kind = "broadcastBrightness" -> MSG_SET_BRIGHTNESS
    [] kind = "broadcastFrameRate" -> MSG_SET_FRAMERATE
    [] kind = "sendPeerModeChange" -> MSG_SET_MODE
    [] kind = "sendPeerPattern" -> MSG_SET_PATTERN
    [] kind = "sendPeerBrightness" -> MSG_SET_BRIGHTNESS
    [] kind = "sendPeerFrameRate" -> MSG_SET_FRAMERATE

BroadcastKinds ==
  {"broadcastModeChange", "broadcastPattern", "broadcastBrightness", "broadcastFrameRate"}

\* the slots that are PAIRED and online
Targets == {i \in 0..(peerCount - 1) : peers[i].state = PEER_PAIRED /\ peers[i].online}

\* C7: each of the four broadcast calls leaves the registry as it was; it sends nothing
\* when the mode is INDEPENDENT or no record is PAIRED and online, and otherwise one
\* datagram of its type with the given values to each PAIRED+online peer and to nobody else.
C7_BroadcastFanOut ==
  [][op'.kind \in BroadcastKinds =>
       /\ UNCHANGED registry
       /\ IF syncMode # SYNC_MIRROR \/ Targets = {}
          THEN sent' = <<>>
          ELSE /\ Len(sent') = Cardinality(Targets)
               /\ \A i \in Targets :
                    Cardinality({k \in 1..Len(sent') : sent'[k].mac = peers[i].mac}) = 1
               /\ \A k \in 1..Len(sent') :
                    /\ \E i \in Targets : sent'[k].mac = peers[i].mac
                    /\ Len(sent'[k].data) = HeaderLen + Len(op'.arg)
                    /\ Take(sent'[k].data, 3) = <<SYNC_MAGIC_0, SYNC_MAGIC_1, BroadcastType(op'.kind)>>
                    /\ Drop(sent'[k].data, HeaderLen) = op'.arg]_vars

\* a broadcast in MIRROR mode with two PAIRED peers, one of them offline: one datagram
C7_Witness ==
  /\ op.kind \in BroadcastKinds
  /\ syncMode = SYNC_MIRROR
  /\ peerCount = 2
  /\ \A i \in 0..1 : peers[i].state = PEER_PAIRED
  /\ Cardinality(Targets) = 1
  /\ Len(sent) = 1
  /\ \E i \in Targets : sent[1].mac = peers[i].mac

\* C11: while auto-pair is off, a PairRequest from any endpoint changes nothing: no
\* record is created or modified, no endpoint is registered with the transport,
\* nothing is sent and no callback is invoked.
C11_AutoPairOffIgnores ==
  [][\A m \in Remotes :
       (IsRecv(op', m, PairRequestOf(m)) /\ ~autoPairEnabled) =>
         /\ UNCHANGED object
         /\ sent' = <<>>
         /\ calls' = <<>>]_vars

\* with auto-pair off, one endpoint paired earlier and the other, unknown to the
\* registry and to the transport, has just asked to pair
C11_Witness ==
  \E m \in Remotes :
    /\ IsRecv(op, m, PairRequestOf(m))
    /\ ~autoPairEnabled
    /\ ~InRegistry(m)
    /\ m \notin espPeers
    /\ peerCount = 1
    /\ sent = <<>>

\* C12 as stated: in every state, every record is online exactly when it is PAIRED
\* and was last heard less than 10000 ms ago.
C12_OnlineIffFresh ==
  \A i \in 0..(peerCount - 1) :
    peers[i].online <=> (peers[i].state = PEER_PAIRED /\ now - peers[i].lastSeen < 10000)

\* C12 as the code has it: online is a stored flag that only a sweep clears, so a
\* record that was heard less than 10000 ms ago is always online and an offline
\* record has always been silent for at least 10000 ms, but a silent record stays
\* online until the next sweep.
C12_OnlineIsStoredFlag ==
  \A i \in 0..(peerCount - 1) :
    /\ peers[i].state = PEER_PAIRED
    /\ now - peers[i].lastSeen < 10000 => peers[i].online
    /\ ~peers[i].online => now - peers[i].lastSeen >= 10000

\* 26 s after its last message, and before the next sweep, a record is still online
C12_Witness ==
  \E i \in 0..(peerCount - 1) :
    /\ op.kind = "advance"
    /\ peers[i].state = PEER_PAIRED
    /\ peers[i].online
    /\ now - peers[i].lastSeen >= 26000

\* C13 as stated: after a well-formed message of any handled type from an endpoint
\* that is in the registry and stays in it, lastSeen of its record is the receive time.
C13_LastSeenIsLastMessage ==
  [][\A m \in Remotes :
       (WellFormedFrom(op', m) /\ InRegistry(m) /\ InRegistry(m)') =>
         \A j \in RecordsOf(m)' : peers'[j].lastSeen = now]_vars

\* C13 as the code has it: lastSeen becomes the receive time on a Heartbeat, an
\* accepted PairResponse and a PairRequest taken with auto-pair on; SetMode,
\* SetPattern, SetBrightness, SetFrameRate, SyncTime and a PairRequest received
\* with auto-pair off leave lastSeen as it was.
C13_LastSeenByPairingAndHeartbeat ==
  [][\A m \in Remotes :
       (WellFormedFrom(op', m) /\ InRegistry(m) /\ InRegistry(m)') =>
         \A i \in RecordsOf(m) :
           \A j \in RecordsOf(m)' :
             IF \/ op'.data[3] = MSG_HEARTBEAT
                \/ op'.data[3] = MSG_PAIR_RESPONSE /\ op'.data[HeaderLen + SizeofPairPayload] # 0
                \/ op'.data[3] = MSG_PAIR_REQUEST /\ autoPairEnabled
             THEN peers'[j].lastSeen = now
             ELSE peers'[j].lastSeen = peers[i].lastSeen]_vars

\* a SetMode of a paired endpoint was handled 5 s after its last heartbeat or
\* pairing: the callback ran, lastSeen is still 5 s old
C13_Witness ==
  \E m \in Remotes :
    \E i \in RecordsOf(m) :
      /\ IsRecv(op, m, Frame(MSG_SET_MODE, 0, ModePayload(2, 5)))
      /\ calls = <<[cb |-> "onModeChange", args |-> <<2, 5>>]>>
      /\ peers[i].currentMode = 2
      /\ now - peers[i].lastSeen = 5000

\* C14: each of the four sendPeerX leaves the registry as it was; with an index
\* inside the table whose record is PAIRED it sends one datagram of its type, with
\* the given values, to that record's endpoint, whether the record is online or not
\* and whatever the sync mode is; with any other index it sends nothing.
C14_TargetedSend ==
  [][op'.kind \in {"sendPeerModeChange", "sendPeerPattern",
                   "sendPeerBrightness", "sendPeerFrameRate"} =>
       /\ UNCHANGED registry
       /\ LET i == op'.data[1]
          IN IF i >= 0 /\ i < peerCount /\ peers[i].state = PEER_PAIRED
             THEN sent' = <<[mac |-> peers[i].mac,
                             data |-> Frame(BroadcastType(op'.kind), seq, op'.arg)]>>
             ELSE sent' = <<>>]_vars

\* in INDEPENDENT mode a command went to a PAIRED peer that a sweep had marked offline
C14_Witness ==
  /\ op.kind \in {"sendPeerModeChange", "sendPeerPattern",
                  "sendPeerBrightness", "sendPeerFrameRate"}
  /\ syncMode = SYNC_INDEPENDENT
  /\ op.data[1] \in 0..(peerCount - 1)
  /\ peers[op.data[1]].state = PEER_PAIRED
  /\ ~peers[op.data[1]].online
  /\ Len(sent) = 1
  /\ sent[1].mac = peers[op.data[1]].mac

\* C15: only loop() sends SyncTime, and only when the sync mode is MIRROR, some
\* record is PAIRED and online, and 5000 ms have passed since the last time sync;
\* so in INDEPENDENT mode, or with no PAIRED+online record, no SyncTime is sent.
C15_TimeSyncGated ==
  [][(\E k \in 1..Len(sent') : sent'[k].data[3] = MSG_SYNC_TIME) =>
       /\ op'.kind = "loop"
       /\ syncMode = SYNC_MIRROR
       /\ Targets # {}
       /\ Targets' # {}
       /\ now - lastTimeSync >= 5000]_vars

\* a loop() in MIRROR mode with a PAIRED+online peer has just sent a SyncTime
C15_Witness ==
  /\ op.kind = "loop"
  /\ syncMode = SYNC_MIRROR
  /\ Targets # {}
  /\ lastTimeSync = now
  /\ \E k \in 1..Len(sent) : sent[k].data[3] = MSG_SYNC_TIME

C17_OffsetOfLastSyncTime ==
  /\ timeOffset = 0
  /\ [][IF /\ op'.kind = "recv"
           /\ \E t \in {50000, 2000} : op'.data = SyncTimeOf(t)
           /\ \E m \in Remotes : op'.mac = m /\ PairedIn(m)
        THEN \A t \in {50000, 2000} :
               op'.data = SyncTimeOf(t) =>
                 /\ timeOffset' = t - now
                 /\ calls' = <<[cb |-> "onSyncTime", args |-> <<t - now>>]>>
        ELSE /\ timeOffset' = timeOffset
             /\ (op'.kind = "recv" /\ op'.data \in SyncTimeMsgs) => calls' = <<>>]_vars

\* SyncTime{50000} of a paired endpoint arrived at local clock 49000: the offset
\* is 1000 and the host was told so
C17_Witness ==
  \E m \in Remotes :
    /\ IsRecv(op, m, SyncTimeOf(50000))
    /\ PairedIn(m)
    /\ now = 49000
    /\ timeOffset = 1000
    /\ calls = <<[cb |-> "onSyncTime", args |-> <<1000>>]>>

\* C18: a well-formed Heartbeat from an endpoint in the registry sets lastSeen of its
\* record to now, online to true, and mode, index, brightness and name to those of
\* the heartbeat; onPeerUpdate is invoked once if the record was offline and not at
\* all if it was online; no other record changes and nothing is sent.
C18_HeartbeatUpdatesRecord ==
  [][\A m \in Remotes :
       (IsRecv(op', m, HeartbeatOf(m)) /\ InRegistry(m)) =>
         \A i \in RecordsOf(m) :
           /\ peerCount' = peerCount
           /\ peers' = [peers EXCEPT ![i] =
                          [mac |-> m, name |-> NameC, state |-> peers[i].state,
                           lastSeen |-> now, currentMode |-> 1, currentIndex |-> 2,
                           brightness |-> 3, online |-> TRUE]]
           /\ calls' = IF peers[i].online
                       THEN <<>>
                       ELSE <<[cb |-> "onPeerUpdate", args |-> <<peers'[i]>>]>>
           /\ sent' = <<>>]_vars

\* both records were offline; the heartbeat of one brought it back, with one
\* onPeerUpdate, and left the other offline under its old name
C18_Witness ==
  \E m \in Remotes :
    \E i \in RecordsOf(m) :
      /\ IsRecv(op, m, HeartbeatOf(m))
      /\ peerCount = 2
      /\ peers[i].online
      /\ peers[i].name = NameC
      /\ peers[i].lastSeen = now
      /\ now > 0
      /\ Len(calls) = 1
      /\ \E j \in 0..1 : j # i /\ ~peers[j].online /\ peers[j].name = NameB

\* C19: a Heartbeat from an endpoint that is not in the registry changes nothing,
\* sends nothing and invokes no callback, with auto-pair on or off; the peer count
\* grows only on a received PairRequest or PairResponse.
C19_HeartbeatNeverPairs ==
  [][/\ \A m \in Remotes :
          (IsRecv(op', m, HeartbeatSameOf(m)) /\ ~InRegistry(m)) =>
            /\ UNCHANGED object
            /\ sent' = <<>>
            /\ calls' = <<>>
     /\ peerCount' > peerCount =>
          /\ op'.kind = "recv"
          /\ op'.data[3] \in {MSG_PAIR_REQUEST, MSG_PAIR_RESPONSE}]_vars

\* with auto-pair on and one endpoint paired, the other one sent a heartbeat
C19_Witness ==
  \E m \in Remotes :
    /\ IsRecv(op, m, HeartbeatSameOf(m))
    /\ ~InRegistry(m)
    /\ autoPairEnabled
    /\ peerCount = 1
    /\ m \notin espPeers

\* C20: a sweep invokes onPeerUpdate once, with the record as the sweep left it, for
\* each PAIRED peer whose online flag it takes from true to false, and for no other
\* peer: not for one that was offline already, not for one it leaves online.
C20_NotifyOnceOnOffline ==
  [][SweptBy(op', sent') =>
       LET gone == {m \in RemotesLive :
                      \E i \in RecordsOf(m) :
                        \E j \in RecordsOf(m)' :
                          /\ peers[i].state = PEER_PAIRED
                          /\ peers[i].online
                          /\ ~peers'[j].online}
       IN /\ Len(calls') = Cardinality(gone)
          /\ \A m \in gone :
               \E k \in 1..Len(calls') :
                 \E j \in RecordsOf(m)' :
                   calls'[k] = [cb |-> "onPeerUpdate", args |-> <<peers'[j]>>]]_vars

\* a later sweep found the peer offline, silent for 15 s or more, and told nobody
C20_Witness ==
  \E m \in RemotesLive :
    \E i \in RecordsOf(m) :
      /\ SweptBy(op, sent)
      /\ peers[i].state = PEER_PAIRED
      /\ ~peers[i].online
      /\ now - peers[i].lastSeen >= 15000
      /\ calls = <<>>

\* C22: an Unpair received from an endpoint that has a record removes exactly that
\* record and deregisters the endpoint from ESP-NOW; the records before it stay where
\* they are, the records after it move down one slot unchanged, and the count drops by
\* one.  An Unpair from an endpoint without a record changes nothing.
C22_UnpairRemovesThatRecord ==
  [][\A m \in RemotesFull :
       IsRecv(op', m, UnpairMsg) =>
         IF InRegistry(m)
         THEN \E idx \in RecordsOf(m) :
                /\ peerCount' = peerCount - 1
                /\ \A i \in 0..(peerCount - 2) :
                     peers'[i] = IF i < idx THEN peers[i] ELSE peers[i + 1]
                /\ \A i \in 0..(peerCount - 2) : peers'[i].mac # m
                /\ espPeers' = espPeers \ {m}
         ELSE /\ UNCHANGED object
              /\ sent' = <<>>
              /\ calls' = <<>>]_vars

\* the endpoint of the first of six records has unpaired: the other five moved down
C22_Witness ==
  /\ op.kind = "recv"
  /\ op.data = UnpairMsg
  /\ op.mac = MacOf(1)
  /\ peerCount = MAX_SYNC_PEERS - 1
  /\ peers[0].mac = MacOf(2)
  /\ peers[MAX_SYNC_PEERS - 2].mac = MacOf(MAX_SYNC_PEERS)
  /\ MacOf(1) \notin espPeers

\* C23: unpairPeer(i) with i in range sends exactly one Unpair to peer i when it is
\* PAIRED and removes exactly that record, the others keeping their order; out of range
\* it does nothing.  unpairAll sends exactly one Unpair to every PAIRED peer and leaves
\* the registry empty, so hasPairedPeer is false.
C23_LocalUnpair ==
  [][/\ op'.kind = "unpairPeer" =>
          LET idx == op'.arg[1]
          IN IF idx >= 0 /\ idx < peerCount
             THEN /\ peerCount' = peerCount - 1
                  /\ \A i \in 0..(peerCount - 2) :
                       peers'[i] = IF i < idx THEN peers[i] ELSE peers[i + 1]
                  /\ sent' = IF peers[idx].state = PEER_PAIRED
                             THEN <<[mac |-> peers[idx].mac,
                                     data |-> Frame(MSG_UNPAIR, seq, <<>>)]>>
                             ELSE <<>>
             ELSE /\ UNCHANGED object
                  /\ sent' = <<>>
                  /\ calls' = <<>>
     /\ op'.kind = "unpairAll" =>
          /\ peerCount' = 0
          /\ peers' = [i \in Slots |-> ZeroPeer]
          /\ ~hasPairedPeer(Cur)'
          /\ Len(sent') = Cardinality({i \in 0..(peerCount - 1) :
                                         peers[i].state = PEER_PAIRED})
          /\ \A i \in 0..(peerCount - 1) :
               peers[i].state = PEER_PAIRED =>
                 Cardinality({k \in 1..Len(sent') :
                                /\ sent'[k].mac = peers[i].mac
                                /\ sent'[k].data[3] = MSG_UNPAIR
                                /\ Len(sent'[k].data) = HeaderLen}) = 1]_vars

\* unpairPeer(2) on a full table: the third endpoint got the Unpair, the fourth record
\* is now in the third slot
C23_Witness ==
  /\ op.kind = "unpairPeer"
  /\ op.arg = <<2>>
  /\ peerCount = MAX_SYNC_PEERS - 1
  /\ Len(sent) = 1
  /\ sent[1].mac = MacOf(3)
  /\ sent[1].data[3] = MSG_UNPAIR
  /\ peers[2].mac = MacOf(4)
  /\ peers[1].mac = MacOf(2)

\* C26: a datagram whose sender address is the local address is dropped whatever its
\* type: the object stays as it was, nothing is sent, no callback runs; so the device
\* never holds a record of itself.
C26_OwnMessagesDropped ==
  /\ ~InRegistry(LocalMac)
  /\ [][(op'.kind = "recv" /\ op'.mac = LocalMac) =>
          /\ UNCHANGED object
          /\ sent' = <<>>
          /\ calls' = <<>>]_vars

\* the device's own PairRequest came back to it with auto-pair on and a free slot
C26_Witness ==
  /\ IsRecv(op, LocalMac, PairRequestOf(LocalMac))
  /\ autoPairEnabled
  /\ peerCount < MAX_SYNC_PEERS
  /\ sent = <<>>

\* C24: a SetMode, SetPattern, SetBrightness or SetFrameRate whose sender has no PAIRED
\* record, or whose payload is shorter than 2, 9, 1 and 1 bytes respectively, is
\* dropped: the registry stays as it was and no callback runs.
C24_CommandDropped ==
  [][\A m \in Remotes :
       (/\ op'.kind = "recv"
        /\ op'.mac = m
        /\ op'.data \in CommandMsgs
        /\ \/ ~PairedIn(m)
           \/ Len(op'.data) - HeaderLen < PayloadSize(op'.data[3])) =>
         /\ UNCHANGED registry
         /\ calls' = <<>>]_vars

\* a SetMode with a one-byte payload came from a paired endpoint: no callback, the
\* record still has the mode it was paired with
C24_Witness ==
  \E m \in Remotes :
    \E i \in RecordsOf(m) :
      /\ IsRecv(op, m, Frame(MSG_SET_MODE, 0, <<2>>))
      /\ peers[i].state = PEER_PAIRED
      /\ peers[i].currentMode = 0
      /\ calls = <<>>

\* C25 as stated: every accepted command updates the record of its sender with what it
\* carries (mode and index for SetMode, index for SetPattern, brightness for
\* SetBrightness) and runs its callback exactly once with the payload values.
C25_CommandUpdatesRecord ==
  [][\A m \in Remotes :
       (/\ op'.kind = "recv"
        /\ op'.mac = m
        /\ op'.data \in CommandMsgs
        /\ PairedIn(m)
        /\ Len(op'.data) - HeaderLen >= PayloadSize(op'.data[3])) =>
         \E i \in RecordsOf(m) :
           LET t == op'.data[3]
               p == Drop(op'.data, HeaderLen)
           IN /\ t = MSG_SET_MODE =>
                   /\ peers'[i].currentMode = p[1]
                   /\ peers'[i].currentIndex = p[2]
                   /\ calls' = <<[cb |-> "onModeChange", args |-> <<p[1], p[2]>>]>>
              /\ t = MSG_SET_PATTERN =>
                   /\ peers'[i].currentIndex = p[1]
                   /\ calls' = <<[cb |-> "onPattern", args |-> p]>>
              /\ t = MSG_SET_BRIGHTNESS =>
                   /\ peers'[i].brightness = p[1]
                   /\ calls' = <<[cb |-> "onBrightness", args |-> <<p[1]>>]>>
              /\ t = MSG_SET_FRAMERATE =>
                   calls' = <<[cb |-> "onFrameRate", args |-> <<p[1]>>]>>]_vars

\* C25 as the code has it: every accepted command runs its callback exactly once with
\* the payload values; SetMode stores mode and index in the record of its sender,
\* SetBrightness stores the brightness, and SetPattern and SetFrameRate leave the whole
\* registry as it was.
C25_CommandCallbackAndRecord ==
  [][\A m \in Remotes :
       (/\ op'.kind = "recv"
        /\ op'.mac = m
        /\ op'.data \in CommandMsgs
        /\ PairedIn(m)
        /\ Len(op'.data) - HeaderLen >= PayloadSize(op'.data[3])) =>
         \E i \in RecordsOf(m) :
           LET t == op'.data[3]
               p == Drop(op'.data, HeaderLen)
           IN /\ peerCount' = peerCount
              /\ peers' =
                   [peers EXCEPT ![i] =
                      CASE t = MSG_SET_MODE ->
                             [@ EXCEPT !.currentMode = p[1], !.currentIndex = p[2]]
                        [] t = MSG_SET_BRIGHTNESS -> [@ EXCEPT !.brightness = p[1]]
                        [] OTHER -> @]
              /\ calls' =
                   <<[cb |-> CASE t = MSG_SET_MODE -> "onModeChange"
                               [] t = MSG_SET_PATTERN -> "onPattern"
                               [] t = MSG_SET_BRIGHTNESS -> "onBrightness"
                               [] t = MSG_SET_FRAMERATE -> "onFrameRate",
                      args |-> p]>>]_vars

\* a SetPattern with index 1 from a paired endpoint was handled: onPattern ran with the
\* nine payload values, the record's index is not 1
C25_Witness ==
  \E m \in Remotes :
    \E i \in RecordsOf(m) :
      /\ IsRecv(op, m, Frame(MSG_SET_PATTERN, 0, PatternPayload(1, 2, 3, 4, 5, 6, 7, 8, 9)))
      /\ peers[i].state = PEER_PAIRED
      /\ calls = <<[cb |-> "onPattern", args |-> <<1, 2, 3, 4, 5, 6, 7, 8, 9>>]>>
      /\ peers[i].currentIndex # 1

\* C27: a record is created from a PairResponse only when it accepts a request this
\* device sent.  startPairing is never called in this specification, so no
\* PairResponse{accepted = 1} from an endpoint without a record creates one.
C27_NoRecordFromUnsolicitedResponse ==
  [][\A m \in Remotes :
       (IsRecv(op', m, PairResponseOf(m, 1)) /\ ~InRegistry(m)) =>
         ~InRegistry(m)']_vars

\* C28: a PairResponse with accepted = 0 leaves the object as it was, runs no callback
\* and sends nothing.  A PairResponse with accepted = 1 from an endpoint that has no
\* record, received while the registry has a free slot, appends a record for it that
\* is PAIRED, online, heard now, and carries the name of the responder.
C28_PairResponseHandled ==
  [][\A m \in Remotes :
       /\ IsRecv(op', m, PairResponseOf(m, 0)) =>
            /\ UNCHANGED object
            /\ sent' = <<>>
            /\ calls' = <<>>
       /\ (/\ IsRecv(op', m, PairResponseOf(m, 1))
           /\ ~InRegistry(m)
           /\ peerCount < MAX_SYNC_PEERS) =>
            /\ peerCount' = peerCount + 1
            /\ peers' = [peers EXCEPT ![peerCount] =
                           [mac |-> m, name |-> NameB, state |-> PEER_PAIRED,
                            lastSeen |-> now, currentMode |-> 0, currentIndex |-> 0,
                            brightness |-> 0, online |-> TRUE]]]_vars

\* one endpoint is paired, the other has just refused: it has no record, no callback ran
C28_Witness ==
  \E m \in Remotes :
    /\ IsRecv(op, m, PairResponseOf(m, 0))
    /\ ~InRegistry(m)
    /\ peerCount = 1
    /\ peers[0].state = PEER_PAIRED
    /\ calls = <<>>
    /\ sent = <<>>

\* C30 as stated: a tick broadcasts one Heartbeat and then runs the liveness sweep
\* whenever at least 2000 ms have elapsed since the previous heartbeat, whatever the
\* sync mode and the registry hold, and does neither otherwise.
C30_HeartbeatAtTwoSeconds ==
  [][op'.kind = "loop" =>
       IF now - lastHeartbeat >= HeartbeatInterval
       THEN /\ Len(sent') >= 1
            /\ sent'[1] = [mac |-> BroadcastAddr,
                           data |-> Frame(MSG_HEARTBEAT, seq,
                                          HeartbeatPayload(localState.mode, localState.index,
                                                           localState.brightness,
                                                           localState.frameDelay, now,
                                                           syncMode, LocalName))]
            /\ \A k \in 2..Len(sent') : sent'[k].data[3] # MSG_HEARTBEAT
            /\ lastHeartbeat' = now
            /\ \A m \in SweepMacs :
                 \A i \in RecordsOf(m) :
                   peers[i].state = PEER_PAIRED =>
                     \A j \in RecordsOf(m)' :
                       peers'[j].online = (now - peers[i].lastSeen < OfflineTimeout)
       ELSE /\ \A k \in 1..Len(sent') : sent'[k].data[3] # MSG_HEARTBEAT
            /\ UNCHANGED <<registry, espPeers, lastHeartbeat>>
            /\ calls' = <<>>]_vars

\* C30 as the code has it: a tick broadcasts one Heartbeat and then runs the liveness
\* sweep when more than 2000 ms have elapsed since the previous heartbeat, whatever the
\* sync mode and the registry hold; at 2000 ms or less it broadcasts no Heartbeat and
\* leaves the registry as it was.
C30_HeartbeatAfterTwoSeconds ==
  [][op'.kind = "loop" =>
       IF now - lastHeartbeat > HeartbeatInterval
       THEN /\ Len(sent') >= 1
            /\ sent'[1] = [mac |-> BroadcastAddr,
                           data |-> Frame(MSG_HEARTBEAT, seq,
                                          HeartbeatPayload(localState.mode, localState.index,
                                                           localState.brightness,
                                                           localState.frameDelay, now,
                                                           syncMode, LocalName))]
            /\ \A k \in 2..Len(sent') : sent'[k].data[3] # MSG_HEARTBEAT
            /\ lastHeartbeat' = now
            /\ \A m \in SweepMacs :
                 \A i \in RecordsOf(m) :
                   peers[i].state = PEER_PAIRED =>
                     \A j \in RecordsOf(m)' :
                       peers'[j].online = (now - peers[i].lastSeen < OfflineTimeout)
       ELSE /\ \A k \in 1..Len(sent') : sent'[k].data[3] # MSG_HEARTBEAT
            /\ UNCHANGED <<registry, espPeers, lastHeartbeat>>
            /\ calls' = <<>>]_vars

\* a tick exactly 2000 ms after the previous heartbeat: no Heartbeat went out, and a
\* PAIRED record heard 1 s ago is still marked offline because the sweep did not run
C30_Witness ==
  /\ op.kind = "loop"
  /\ now - lastHeartbeat = HeartbeatInterval
  /\ \A k \in 1..Len(sent) : sent[k].data[3] # MSG_HEARTBEAT
  /\ syncMode = SYNC_INDEPENDENT
  /\ \E i \in 0..(peerCount - 1) :
       /\ peers[i].state = PEER_PAIRED
       /\ ~peers[i].online
       /\ now - peers[i].lastSeen < OfflineTimeout

\* C21: a PAIRED peer that is marked online and then stays silent, while the clock
\* advances and loop() keeps being called, is eventually marked offline by a sweep
\* that invokes onPeerUpdate with the record reporting it offline.
C21_SilentPeerGoesOffline ==
  \A m \in RemotesLive :
    (\E i \in RecordsOf(m) : peers[i].state = PEER_PAIRED /\ peers[i].online)
      ~> (\E i \in RecordsOf(m) :
            /\ peers[i].state = PEER_PAIRED
            /\ ~peers[i].online
            /\ op.kind = "loop"
            /\ \E k \in 1..Len(calls) :
                 calls[k] = [cb |-> "onPeerUpdate", args |-> <<peers[i]>>])

\* the sweep of a loop() run 10 s or more after the last message of the endpoint has
\* just marked it offline and told the host
C21_Witness ==
  \E m \in RemotesLive :
    \E i \in RecordsOf(m) :
      /\ peers[i].state = PEER_PAIRED
      /\ ~peers[i].online
      /\ now - peers[i].lastSeen >= OfflineTimeout
      /\ op.kind = "loop"
      /\ calls = <<[cb |-> "onPeerUpdate", args |-> <<peers[i]>>]>>

\* C29: with two devices, auto-pair on and a lossy channel, after the first calls
\* startPairing the pair eventually reaches, and stays in, a state where each device
\* holds the other as a PAIRED record or neither holds a record of the other.
C29_PairingSettles ==
  <>[](\/ /\ PairedIn(MacOf(1))
          /\ \E i \in 0..(other.peerCount - 1) :
               other.peers[i].mac = MacOf(1) /\ other.peers[i].state = PEER_PAIRED
       \/ /\ ~InRegistry(MacOf(1))
          /\ \A i \in 0..(other.peerCount - 1) : other.peers[i].mac # MacOf(1))

\* C33: between operations every record of the registry is PAIRED: no operation
\* assigns PAIR_SENT or DISCOVERING and no record goes back to an earlier state; so the
\* stale-discovery branch of the sweep never removes a record and loop() never changes
\* the peer count.
C33_EveryRecordPaired ==
  /\ \A i \in 0..(peerCount - 1) : peers[i].state = PEER_PAIRED
  /\ [][/\ \A i \in 0..(peerCount' - 1) : peers'[i].state = PEER_PAIRED
        /\ op'.kind = "loop" =>
             /\ peerCount' = peerCount
             /\ \A i \in 0..(peerCount - 1) : peers'[i].mac = peers[i].mac]_vars

\* a sweep has run more than 30 s after the endpoint was last heard: its record is
\* still there, PAIRED and offline
C33_Witness ==
  /\ SweptBy(op, sent)
  /\ peerCount = 1
  /\ peers[0].state = PEER_PAIRED
  /\ ~peers[0].online
  /\ now - peers[0].lastSeen > StaleTimeout

\* C34: what the receiver does with a datagram does not depend on its sequence byte:
\* the same datagram with another sequence byte gives the same object, the same
\* datagrams sent and the same callbacks.  A datagram delivered again is handled
\* again: a SetMode of a PAIRED endpoint delivered a second time runs onModeChange a
\* second time.
C34_SequenceByteIgnored ==
  [][\A m \in Remotes :
       (op'.kind = "recv" /\ op'.mac = m /\ Len(op'.data) >= HeaderLen) =>
         /\ \A q \in {1, 128, 255} :
              handleMessage(Cur, m, [op'.data EXCEPT ![HeaderLen] = q])
                = handleMessage(Cur, m, op'.data)
         /\ (op'.data = Frame(MSG_SET_MODE, 0, ModePayload(2, 5)) /\ PairedIn(m)) =>
              /\ calls' = <<[cb |-> "onModeChange", args |-> <<2, 5>>]>>
              /\ handleMessage(Cur', m, op'.data).calls
                   = <<[cb |-> "onModeChange", args |-> <<2, 5>>]>>]_vars

\* a SetMode(2, 5) of a PAIRED endpoint was handled after its SetBrightness(200):
\* onModeChange ran, and a second delivery finds the record already at mode 2
C34_Witness ==
  \E m \in Remotes :
    \E i \in RecordsOf(m) :
      /\ IsRecv(op, m, Frame(MSG_SET_MODE, 0, ModePayload(2, 5)))
      /\ calls = <<[cb |-> "onModeChange", args |-> <<2, 5>>]>>
      /\ peers[i].currentMode = 2
      /\ peers[i].brightness = 200

\* C36: after every operation the endpoints registered with ESP-NOW, the broadcast
\* address apart, are exactly the endpoints of the records of the registry, also
\* after a PairRequest or a PairResponse refused because the registry is full.
C36_TransportMatchesRegistry ==
  espPeers \ {BroadcastAddr} = {peers[i].mac : i \in 0..(peerCount - 1)}

C35_SequenceCountsDatagrams ==
  /\ seq = 0
  /\ [][/\ seq' = (seq + Len(sent')) % 256
        /\ \A k \in 1..Len(sent') :
             Len(sent'[k].data) >= HeaderLen =>
               sent'[k].data[HeaderLen] = (seq + k - 1) % 256]_vars

\* a broadcast to two peers was the 256th and 257th datagram: bytes 255 and 0
C35_Witness ==
  /\ op.kind = "broadcastBrightness"
  /\ Len(sent) = 2
  /\ sent[1].data[HeaderLen] = 255
  /\ sent[2].data[HeaderLen] = 0
  /\ seq = 1


\* C37: the clock is a wrapping word and every elapsed-time test is taken modulo
\* the word size: across the wrap a sweep keeps a PAIRED peer online exactly while
\* it was heard less than OfflineTimeout ago in true time, the heartbeat is due
\* exactly when more than HeartbeatInterval of true time has passed since the
\* last one, and the offset stored on SyncTime is the true difference between
\* the remote and the local clock (true time counts from the wrap instant: the
\* readings before it are negative).
C37_ElapsedModuloWord ==
  [][LET T(t) == IF t >= ClockWrap - BootTime THEN t - ClockWrap ELSE t
     IN  /\ SweptBy(op', sent') =>
              \A i \in 0..(peerCount - 1) :
                peers'[i].online =
                  (peers[i].online /\ T(now) - T(peers[i].lastSeen) < OfflineTimeout)
         /\ (op'.kind = "loop" /\ lastHeartbeat # 0) =>
              (SweptBy(op', sent') <=> T(now) - T(lastHeartbeat) > HeartbeatInterval)
         /\ (/\ op'.kind = "recv"
             /\ op'.data[3] = MSG_SYNC_TIME
             /\ \E i \in 0..(peerCount - 1) :
                  peers[i].mac = op'.mac /\ peers[i].state = PEER_PAIRED) =>
              timeOffset' = T(FromU32LE(Drop(op'.data, HeaderLen))) - T(now)
       ]_vars

\* a sweep after the wrap finds a peer that was last heard before the wrap,
\* less than OfflineTimeout ago, and leaves it online
C37_Witness ==
  /\ SweptBy(op, sent)
  /\ peerCount = 1
  /\ peers[0].lastSeen >= ClockWrap - BootTime
  /\ now < peers[0].lastSeen
  /\ peers[0].online


\* C38: while no PAIRED record is online, the four broadcasts and loop() send no
\* SetMode, SetPattern, SetBrightness, SetFrameRate or SyncTime datagram (a loop()
\* whose sweep has just marked the last peer offline included); that state ends
\* only by receiving a Heartbeat, a PairRequest or a PairResponse; and a received
\* SetX or SyncTime leaves every online flag as it was.
C38_SilentWhileAllOffline ==
  [][LET Commands == {MSG_SET_MODE, MSG_SET_PATTERN, MSG_SET_BRIGHTNESS,
                      MSG_SET_FRAMERATE, MSG_SYNC_TIME}
         SomeOnline(ps, n) ==
           \E i \in 0..(n - 1) : ps[i].state = PEER_PAIRED /\ ps[i].online
     IN  /\ (/\ op'.kind \in {"loop", "broadcastModeChange", "broadcastPattern",
                              "broadcastBrightness", "broadcastFrameRate"}
             /\ ~SomeOnline(peers', peerCount')) =>
              \A k \in 1..Len(sent') : sent'[k].data[3] \notin Commands
         /\ (~SomeOnline(peers, peerCount) /\ SomeOnline(peers', peerCount')) =>
              /\ op'.kind = "recv"
              /\ op'.data[3] \in {MSG_HEARTBEAT, MSG_PAIR_REQUEST, MSG_PAIR_RESPONSE}
         /\ (op'.kind = "recv" /\ op'.data[3] \in Commands) =>
              /\ peerCount' = peerCount
              /\ \A i \in 0..(peerCount - 1) : peers'[i].online = peers[i].online
       ]_vars

\* a SetMode from a PAIRED peer that a sweep has marked offline has just been
\* handled: the callback ran and the peer is still offline
C38_Witness ==
  /\ op.kind = "recv"
  /\ op.data[3] = MSG_SET_MODE
  /\ calls = <<[cb |-> "onModeChange", args |-> <<2, 5>>]>>
  /\ peerCount = 1
  /\ peers[0].state = PEER_PAIRED
  /\ ~peers[0].online


\* C40: round trip between two devices.  Every datagram that one device hands to
\* the transport in a broadcastX or sendPeerX, given to the dispatcher of the other
\* device as it stands, invokes exactly the matching callback, once, with the
\* values the host passed, if the other device holds the sender as a PAIRED
\* record, and no callback if it does not; and every SetX datagram that is
\* delivered does just that.
C40_CommandRoundTrip ==
  [][LET CbOf == [broadcastModeChange |-> "onModeChange",
                  broadcastPattern |-> "onPattern",
                  broadcastBrightness |-> "onBrightness",
                  broadcastFrameRate |-> "onFrameRate",
                  sendPeerModeChange |-> "onModeChange",
                  sendPeerPattern |-> "onPattern",
                  sendPeerBrightness |-> "onBrightness",
                  sendPeerFrameRate |-> "onFrameRate",
                  broadcastBrightnessOther |-> "onBrightness",
                  sendPeerModeChangeOther |-> "onModeChange"]
         CbOfType(ty) ==
           CASE ty = MSG_SET_MODE -> "onModeChange"
             [] ty = MSG_SET_PATTERN -> "onPattern"
             [] ty = MSG_SET_BRIGHTNESS -> "onBrightness"
             [] ty = MSG_SET_FRAMERATE -> "onFrameRate"
         Holds(s) ==
           \E i \in 0..(s.peerCount - 1) :
             s.peers[i].mac = MacOf(1) /\ s.peers[i].state = PEER_PAIRED
         Expected(s, cb, args) ==
           IF Holds(s) THEN <<[cb |-> cb, args |-> args]>> ELSE <<>>
         b == [other EXCEPT !.sent = <<>>, !.calls = <<>>]
     IN  /\ op'.kind \in {"broadcastModeChange", "broadcastPattern", "broadcastBrightness",
                          "broadcastFrameRate", "sendPeerModeChange", "sendPeerPattern",
                          "sendPeerBrightness", "sendPeerFrameRate"} =>
              \A k \in 1..Len(sent') :
                handleMessage(b, MacOf(1), sent'[k].data).calls
                  = Expected(b, CbOf[op'.kind], op'.arg)
         /\ op'.kind \in {"broadcastBrightnessOther", "sendPeerModeChangeOther"} =>
              \A k \in 1..Len(other'.sent) :
                handleMessage(Cur, MacOf(1), other'.sent[k].data).calls
                  = Expected(Cur, CbOf[op'.kind], op'.arg)
         /\ (op'.kind = "recvOther"
               /\ op'.data[3] \in {MSG_SET_MODE, MSG_SET_PATTERN, MSG_SET_BRIGHTNESS,
                                   MSG_SET_FRAMERATE}) =>
              other'.calls = Expected(b, CbOfType(op'.data[3]), Drop(op'.data, HeaderLen))
         /\ (op'.kind = "recv"
               /\ op'.data[3] \in {MSG_SET_MODE, MSG_SET_PATTERN, MSG_SET_BRIGHTNESS,
                                   MSG_SET_FRAMERATE}) =>
              calls' = Expected(Cur, CbOfType(op'.data[3]), Drop(op'.data, HeaderLen))
       ]_vars

\* the SetPattern that the first device broadcast has been delivered to the second,
\* which holds the first as a PAIRED record: its pattern callback ran once with the
\* nine values
C40_Witness ==
  /\ op.kind = "recvOther"
  /\ op.data[3] = MSG_SET_PATTERN
  /\ other.calls = <<[cb |-> "onPattern", args |-> <<255, 0, 255, 0, 255, 0, 255, 0, 255>>]>>
  /\ \E i \in 0..(other.peerCount - 1) :
       other.peers[i].mac = MacOf(1) /\ other.peers[i].state = PEER_PAIRED


\* C39: startPairing, setSyncMode, setAutoPair, setLocalState, the four broadcasts
\* and the four sendPeerX leave the registry (every slot, the order, peerCount, the
\* online flags) and the time offset as they were; startPairing hands exactly one
\* datagram to the transport, a PairRequest to the broadcast address that carries
\* the local address and name.
C39_HostCallsKeepRegistry ==
  [][ /\ op'.kind \in {"startPairing", "setSyncMode", "setAutoPair", "setLocalState",
                       "broadcastModeChange", "broadcastPattern", "broadcastBrightness",
                       "broadcastFrameRate", "sendPeerModeChange", "sendPeerPattern",
                       "sendPeerBrightness", "sendPeerFrameRate"} =>
           /\ peers' = peers
           /\ peerCount' = peerCount
           /\ timeOffset' = timeOffset
      /\ op'.kind = "startPairing" =>
           sent' = <<[mac |-> BroadcastAddr,
                      data |-> Frame(MSG_PAIR_REQUEST, seq,
                                     PairPayload(LocalMac, LocalName, 0))]>>
    ]_vars

\* startPairing has just run on a table that holds an offline record and an online
\* one: both are still there and the PairRequest went out
C39_Witness ==
  /\ op.kind = "startPairing"
  /\ peerCount = 2
  /\ ~peers[0].online
  /\ peers[1].online
  /\ Len(sent) = 1
  /\ sent[1].data[3] = MSG_PAIR_REQUEST


\* C32: with the receive callback running between the steps of unpairPeer, every
\* state in which unpairPeer is not under way still has 0 <= peerCount <=
\* MAX_SYNC_PEERS and no address in two records.
C32_RegistrySoundUnderPreemption ==
  main.pc = "idle" =>
    /\ 0 <= peerCount
    /\ peerCount <= MAX_SYNC_PEERS
    /\ \A i, j \in 0..(peerCount - 1) : peers[i].mac = peers[j].mac => i = j

====
